---- MODULE Spec2Model ----
(***************************************************************************)
(* Quiz attempt reconciliation and scoring: the Save and Submit request    *)
(* handlers (src/src/app/api/quiz/save/route.ts, .../submit/route.ts) over *)
(* the relational store of prisma/migrations/20251223_init/migration.sql.  *)
(***************************************************************************)
EXTENDS Integers, Sequences, FiniteSets, TLC

VARIABLES quizzes, questions, choices, attempts, answers, clock, txs, resp,
          buckets, calls

vars ==
  <<quizzes, questions, choices, attempts, answers, clock, txs, resp,
    buckets, calls>>

(* ------------------------------ bounds --------------------------------- *)

MaxAttempts == 2

MaxChoiceIds == 3

MaxTx == 2

(* ------------------------------ values --------------------------------- *)

\* SQL NULL of the nullable columns Attempt.score and Attempt.submittedAt.
Null == -1

\* An absent (or falsy) attemptId in the request body.
NoId == 0

\* No session token: requireAuth returns null.
NoUser == "anonymous"

Users == {"u1", "u2"}

Range(s) == {s[i] : i \in DOMAIN s}

RECURSIVE SeqsUpTo(_, _)
SeqsUpTo(S, n) ==
  IF n = 0 THEN {<<>>}
  ELSE LET shorter == SeqsUpTo(S, n - 1)
       IN  shorter \cup {Append(s, x) : s \in {t \in shorter : Len(t) = n - 1}, x \in S}

(* ------------------------------ schema --------------------------------- *)

\* Rows of the Quiz table: one published quiz with questions, one published
\* quiz without questions, one unpublished quiz. "z9" is an id of no row.
QuizRows ==
  [z \in {"z1", "z2", "z3"} |-> [isPublished |-> z # "z3"]]

\* Rows of the Question table.
QuestionRows ==
  (  "q1" :> [quizId |-> "z1", type |-> "SINGLE_CHOICE", order |-> 0]
  @@ "q2" :> [quizId |-> "z1", type |-> "MULTIPLE_CHOICE", order |-> 1]
  @@ "q3" :> [quizId |-> "z3", type |-> "SINGLE_CHOICE", order |-> 0] )

\* Rows of the Choice table.
ChoiceRows ==
  (  "a" :> [questionId |-> "q1", isCorrect |-> TRUE, text |-> "x", order |-> 0]
  @@ "b" :> [questionId |-> "q1", isCorrect |-> FALSE, text |-> "x", order |-> 1]
  @@ "c" :> [questionId |-> "q2", isCorrect |-> TRUE, text |-> "x", order |-> 0]
  @@ "d" :> [questionId |-> "q2", isCorrect |-> TRUE, text |-> "x", order |-> 1]
  @@ "e" :> [questionId |-> "q2", isCorrect |-> FALSE, text |-> "x", order |-> 2]
  @@ "f" :> [questionId |-> "q3", isCorrect |-> TRUE, text |-> "x", order |-> 0]
  @@ "g" :> [questionId |-> "q3", isCorrect |-> FALSE, text |-> "x", order |-> 1] )

(* ------------------------- submission scoring -------------------------- *)

ByQuestionIdAny(quizId) == DOMAIN questions

\* questions of the quiz, keyed by id
ByQuestionId(quizId) == {q \in DOMAIN questions : questions[q].quizId = quizId}

\* new Set((a.choiceIds ?? []).filter(Boolean))
Submitted(choiceIds) == {cid \in Range(choiceIds) : cid # ""}

ValidChoiceIdsAny(q) == DOMAIN choices

\* new Set(q.choices.map((c) => c.id))
ValidChoiceIds(q) == {c \in DOMAIN choices : choices[c].questionId = q}

\* new Set(q.choices.filter((c) => c.isCorrect).map((c) => c.id))
Correct(q) == {c \in ValidChoiceIds(q) : choices[c].isCorrect}

IsCorrectSingleFirst(q, submitted) ==
  IF questions[q].type = "SINGLE_CHOICE"
  THEN \E cid \in submitted : cid \in Correct(q) /\ Cardinality(Correct(q)) = 1
  ELSE /\ Cardinality(submitted) = Cardinality(Correct(q))
       /\ \A cid \in Correct(q) : cid \in submitted

IsCorrectSubset(q, submitted) ==
  IF questions[q].type = "SINGLE_CHOICE"
  THEN /\ Cardinality(submitted) = 1
       /\ \A cid \in submitted : cid \in Correct(q) /\ Cardinality(Correct(q)) = 1
  ELSE \A cid \in Correct(q) : cid \in submitted

IsCorrect(q, submitted) ==
  IF questions[q].type = "SINGLE_CHOICE"
  THEN /\ Cardinality(submitted) = 1
       /\ \A cid \in submitted : cid \in Correct(q) /\ Cardinality(Correct(q)) = 1
  ELSE /\ Cardinality(submitted) = Cardinality(Correct(q))
       /\ \A cid \in Correct(q) : cid \in submitted

\* The validate-and-score loop: the first invalid entry ends the request with
\* a 400; otherwise the score is the number of entries marked correct.
RECURSIVE ScoreLoop(_, _, _, _, _)
ScoreLoop(quizId, body, i, score, marks) ==
  IF i > Len(body)
  THEN [status |-> 200, message |-> "", score |-> score, marks |-> marks]
  ELSE LET a == body[i]
           submitted == Submitted(a.choiceIds)
       IN  IF a.questionId \notin ByQuestionId(quizId)
           THEN [status |-> 400, message |-> "Invalid questionId.",
                 score |-> Null, marks |-> marks]
           ELSE IF \E cid \in submitted : cid \notin ValidChoiceIds(a.questionId)
           THEN [status |-> 400, message |-> "Invalid choiceId.",
                 score |-> Null, marks |-> marks]
           ELSE LET ok == IsCorrect(a.questionId, submitted)
                IN  ScoreLoop(quizId, body, i + 1,
                              IF ok THEN score + 1 ELSE score, Append(marks, ok))

ValidateAndScore(quizId, body) == ScoreLoop(quizId, body, 1, 0, <<>>)

(* -------------------------- attempt resolution ------------------------- *)

InProgressOf(atts, userId, quizId) ==
  {i \in DOMAIN atts : /\ atts[i].userId = userId
                       /\ atts[i].quizId = quizId
                       /\ atts[i].status = "IN_PROGRESS"}

FindHintedById(atts, attemptId, userId, quizId) ==
  IF attemptId \in DOMAIN atts /\ atts[attemptId].status = "IN_PROGRESS"
  THEN attemptId ELSE NoId

\* tx.attempt.findFirst({ where: { id, userId, quizId, status: "IN_PROGRESS" } })
FindHinted(atts, attemptId, userId, quizId) ==
  IF attemptId \in InProgressOf(atts, userId, quizId) THEN attemptId ELSE NoId

\* tx.attempt.findFirst({ where: { userId, quizId, status: "IN_PROGRESS" },
\*                        orderBy: { startedAt: "desc" } })
\* The rows the store may return: any row with the latest startedAt.
FindLatestInProgress(atts, userId, quizId) ==
  LET found == InProgressOf(atts, userId, quizId)
  IN  {i \in found : \A j \in found : atts[j].startedAt <= atts[i].startedAt}

\* Save: body.attemptId ? findFirst(hinted) : findFirst(latest)
ResolveSave(atts, attemptId, userId, quizId) ==
  IF attemptId # NoId
  THEN {FindHinted(atts, attemptId, userId, quizId)}
  ELSE IF FindLatestInProgress(atts, userId, quizId) = {}
       THEN {NoId}
       ELSE FindLatestInProgress(atts, userId, quizId)

ResolveSubmitNoHint(atts, attemptId, userId, quizId) == NoId

\* Submit: if (body.attemptId) { existing = findFirst(hinted) ... }
ResolveSubmit(atts, attemptId, userId, quizId) ==
  IF attemptId # NoId THEN FindHinted(atts, attemptId, userId, quizId) ELSE NoId

\* tx.attempt.aggregate({ where: { userId, quizId }, _max: { attemptNo } })
MaxAttemptNo(atts, userId, quizId) ==
  LET nos == {atts[i].attemptNo :
                i \in {j \in DOMAIN atts : /\ atts[j].userId = userId
                                           /\ atts[j].quizId = quizId}}
  IN  IF nos = {} THEN 0 ELSE CHOOSE n \in nos : \A m \in nos : m <= n

\* (last._max.attemptNo ?? 0) + 1
NextAttemptNo(atts, userId, quizId) == MaxAttemptNo(atts, userId, quizId) + 1

(* ----------------------------- answer writes --------------------------- *)

\* choices: { connect | set: choiceIds.map((id) => ({ id })) } needs every id
\* to be a row of Choice.
Connectable(choiceIds) == \A cid \in Range(choiceIds) : cid \in DOMAIN choices

AnswerRows(ans, attemptId, questionId) ==
  {i \in DOMAIN ans : ans[i].attemptId = attemptId /\ ans[i].questionId = questionId}

UpsertAnswerInsertOnly(ans, attemptId, a) ==
  [ok |-> Connectable(a.choiceIds) /\ a.questionId \in DOMAIN questions,
   rows |-> Append(ans, [attemptId |-> attemptId, questionId |-> a.questionId,
                         choices |-> Range(a.choiceIds)])]

UpsertAnswerConnect(ans, attemptId, a) ==
  LET hit == AnswerRows(ans, attemptId, a.questionId)
  IN  IF ~Connectable(a.choiceIds)
      THEN [ok |-> FALSE, rows |-> ans]
      ELSE IF hit # {}
      THEN [ok |-> TRUE,
            rows |-> [i \in DOMAIN ans |->
                        IF i \in hit
                        THEN [ans[i] EXCEPT !.choices = @ \cup Range(a.choiceIds)]
                        ELSE ans[i]]]
      ELSE IF a.questionId \notin DOMAIN questions
      THEN [ok |-> FALSE, rows |-> ans]
      ELSE [ok |-> TRUE,
            rows |-> Append(ans, [attemptId |-> attemptId,
                                  questionId |-> a.questionId,
                                  choices |-> Range(a.choiceIds)])]

\* tx.answer.upsert({ where: { attemptId_questionId }, create, update })
UpsertAnswer(ans, attemptId, a) ==
  LET hit == AnswerRows(ans, attemptId, a.questionId)
  IN  IF ~Connectable(a.choiceIds)
      THEN [ok |-> FALSE, rows |-> ans]
      ELSE IF hit # {}
      THEN [ok |-> TRUE,
            rows |-> [i \in DOMAIN ans |->
                        IF i \in hit
                        THEN [ans[i] EXCEPT !.choices = Range(a.choiceIds)]
                        ELSE ans[i]]]
      ELSE IF a.questionId \notin DOMAIN questions
      THEN [ok |-> FALSE, rows |-> ans]
      ELSE [ok |-> TRUE,
            rows |-> Append(ans, [attemptId |-> attemptId,
                                  questionId |-> a.questionId,
                                  choices |-> Range(a.choiceIds)])]

\* for (const a of body.answers) await tx.answer.upsert(...)
RECURSIVE UpsertLoop(_, _, _, _)
UpsertLoop(ans, attemptId, body, i) ==
  IF i > Len(body)
  THEN [ok |-> TRUE, rows |-> ans]
  ELSE LET w == UpsertAnswer(ans, attemptId, body[i])
       IN  IF w.ok THEN UpsertLoop(w.rows, attemptId, body, i + 1) ELSE w

\* One row of the nested answers: { create: [...] }; the unique index
\* Answer_attemptId_questionId_key rejects a second row for a question.
CreateAnswer(ans, attemptId, a) ==
  IF \/ AnswerRows(ans, attemptId, a.questionId) # {}
     \/ a.questionId \notin DOMAIN questions
     \/ ~Connectable(a.choiceIds)
  THEN [ok |-> FALSE, rows |-> ans]
  ELSE [ok |-> TRUE,
        rows |-> Append(ans, [attemptId |-> attemptId,
                              questionId |-> a.questionId,
                              choices |-> Range(a.choiceIds)])]

RECURSIVE CreateLoop(_, _, _, _)
CreateLoop(ans, attemptId, body, i) ==
  IF i > Len(body)
  THEN [ok |-> TRUE, rows |-> ans]
  ELSE LET w == CreateAnswer(ans, attemptId, body[i])
       IN  IF w.ok THEN CreateLoop(w.rows, attemptId, body, i + 1) ELSE w

AttemptNoNotIndexed(atts, userId, quizId, attemptNo) == FALSE

\* The unique index Attempt_userId_quizId_attemptNo_key.
AttemptNoTaken(atts, userId, quizId, attemptNo) ==
  \E i \in DOMAIN atts : /\ atts[i].userId = userId
                         /\ atts[i].quizId = quizId
                         /\ atts[i].attemptNo = attemptNo

(* ------------------------- transaction bodies -------------------------- *)
\* Each yields [ok, attempts, answers, id]: ok = FALSE is a failed write, on
\* which the transaction rolls back and the store keeps atts and ans.

\* Save, an attempt was resolved: upsert the answers into it.
SaveUpsert(atts, ans, resolved, body) ==
  LET w == UpsertLoop(ans, resolved, body, 1)
  IN  [ok |-> w.ok, attempts |-> atts, answers |-> w.rows, id |-> resolved]

\* Save, nothing resolved: tx.attempt.create({ status: "IN_PROGRESS", answers })
SaveCreate(atts, ans, userId, quizId, attemptNo, body, now) ==
  LET id == Len(atts) + 1
      w  == CreateLoop(ans, id, body, 1)
  IN  [ok |-> w.ok /\ ~AttemptNoTaken(atts, userId, quizId, attemptNo),
       attempts |-> Append(atts, [userId |-> userId, quizId |-> quizId,
                                  attemptNo |-> attemptNo, status |-> "IN_PROGRESS",
                                  startedAt |-> now, submittedAt |-> Null,
                                  score |-> Null]),
       answers |-> w.rows, id |-> id]

SubmitFinalizeGraded(atts, ans, existing, body, score, now) ==
  LET w == UpsertLoop(ans, existing, body, 1)
  IN  [ok |-> w.ok,
       attempts |-> [atts EXCEPT ![existing].status = "GRADED",
                                 ![existing].submittedAt = now,
                                 ![existing].score = score],
       answers |-> w.rows, id |-> existing]

\* Submit, the hinted draft was found: upsert, then
\* tx.attempt.update({ where: { id }, data: { status, submittedAt, score } })
SubmitFinalize(atts, ans, existing, body, score, now) ==
  LET w == UpsertLoop(ans, existing, body, 1)
  IN  [ok |-> w.ok,
       attempts |-> [atts EXCEPT ![existing].status = "SUBMITTED",
                                 ![existing].submittedAt = now,
                                 ![existing].score = score],
       answers |-> w.rows, id |-> existing]

SubmitCreateUnscored(atts, ans, userId, quizId, attemptNo, body, score, now) ==
  LET id == Len(atts) + 1
      w  == CreateLoop(ans, id, body, 1)
  IN  [ok |-> w.ok /\ ~AttemptNoTaken(atts, userId, quizId, attemptNo),
       attempts |-> Append(atts, [userId |-> userId, quizId |-> quizId,
                                  attemptNo |-> attemptNo, status |-> "SUBMITTED",
                                  startedAt |-> now, submittedAt |-> Null,
                                  score |-> score]),
       answers |-> w.rows, id |-> id]

\* Submit otherwise: tx.attempt.create({ status: "SUBMITTED", score, answers })
SubmitCreate(atts, ans, userId, quizId, attemptNo, body, score, now) ==
  LET id == Len(atts) + 1
      w  == CreateLoop(ans, id, body, 1)
  IN  [ok |-> w.ok /\ ~AttemptNoTaken(atts, userId, quizId, attemptNo),
       attempts |-> Append(atts, [userId |-> userId, quizId |-> quizId,
                                  attemptNo |-> attemptNo, status |-> "SUBMITTED",
                                  startedAt |-> now, submittedAt |-> now,
                                  score |-> score]),
       answers |-> w.rows, id |-> id]

(* ------------------------------ responses ------------------------------ *)

Response(status, message, attemptId, attemptNo, score, total) ==
  [status |-> status, message |-> message, attemptId |-> attemptId,
   attemptNo |-> attemptNo, score |-> score, totalQuestions |-> total]

\* jsonError(message, { status })
JsonError(message, status) == Response(status, message, NoId, 0, Null, 0)

\* A write that throws inside prisma.$transaction: the handler does not catch it.
Unhandled == JsonError("Internal Server Error", 500)

PrecheckUnpublished(userId, admitted, quizId) ==
  IF userId = NoUser THEN JsonError("Unauthorized.", 401)
  ELSE IF ~admitted THEN JsonError("Too many requests.", 429)
  ELSE IF quizId = "" THEN JsonError("Invalid payload.", 400)
  ELSE IF quizId \notin DOMAIN quizzes
  THEN JsonError("Quiz not available.", 404)
  ELSE Response(200, "", NoId, 0, Null, 0)

\* The checks of both handlers before the quiz is used (lines 28-48).
Precheck(userId, admitted, quizId) ==
  IF userId = NoUser THEN JsonError("Unauthorized.", 401)
  ELSE IF ~admitted THEN JsonError("Too many requests.", 429)
  ELSE IF quizId = "" THEN JsonError("Invalid payload.", 400)
  ELSE IF quizId \notin DOMAIN quizzes \/ ~quizzes[quizId].isPublished
  THEN JsonError("Quiz not available.", 404)
  ELSE Response(200, "", NoId, 0, Null, 0)

\* Submit before its transaction (lines 28-99): the request is answered here
\* unless the status is 200, and then score is the computed score.
SubmitCheck(userId, admitted, quizId, body) ==
  LET pre == Precheck(userId, admitted, quizId)
  IN  IF pre.status # 200 THEN pre
      ELSE IF ByQuestionId(quizId) = {}
      THEN JsonError("Quiz has no questions.", 400)
      ELSE LET v == ValidateAndScore(quizId, body)
           IN  IF v.status # 200
               THEN JsonError(v.message, v.status)
               ELSE Response(200, "", NoId, 0, v.score,
                             Cardinality(ByQuestionId(quizId)))

(* ------------------------------- inputs -------------------------------- *)

\* Attempt ids are the positions in attempts; an id beyond Len(attempts)
\* names no attempt (yet).
HintInputs == 0 .. MaxAttempts

Entry(questionId, choiceIds) == [questionId |-> questionId, choiceIds |-> choiceIds]

Request(userId, admitted, quizId, attemptId, body) ==
  [userId |-> userId, admitted |-> admitted, quizId |-> quizId,
   attemptId |-> attemptId, body |-> body]

\* Requests answered before the quiz is used: no session, over the rate
\* limit, no quizId, an unpublished quiz ("z3"), no such quiz ("z9").
Refused ==
  { Request(NoUser, TRUE, "z1", NoId, <<>>), Request("u1", FALSE, "z1", NoId, <<>>),
    Request("u1", TRUE, "", NoId, <<>>), Request("u1", TRUE, "z3", 1, <<>>),
    Request("u1", TRUE, "z9", 1, <<>>) }

\* Specification Spec looks at the attempts: every user, both published
\* quizzes, every hint, and an empty and a one-answer body.
Bodies ==
  { <<>>, <<Entry("q1", <<"a">>)>> }

Requests ==
  Refused \cup
  { Request(userId, TRUE, quizId, attemptId, body) :
      userId \in Users, quizId \in {"z1", "z2"}, attemptId \in HintInputs,
      body \in Bodies }

\* Specification SpecAnswers looks at the answers: one user and quiz, every
\* hint, and bodies with right and wrong answers, a repeated question, a
\* question that does not exist ("q9"), a choice of another question, and an
\* empty choice id after a valid entry.
AnswerBodies ==
  { <<>>,
    <<Entry("q1", <<"a">>)>>,
    <<Entry("q1", <<"b">>)>>,
    <<Entry("q1", <<"a">>), Entry("q2", <<"d", "c">>)>>,
    <<Entry("q1", <<"a">>), Entry("q1", <<"a">>)>>,
    <<Entry("q1", <<"a">>), Entry("q9", <<"a">>)>>,
    <<Entry("q1", <<"a">>), Entry("q2", <<"a">>)>>,
    <<Entry("q1", <<"a">>), Entry("q2", <<"">>)>> }

AnswerRequests ==
  { Request("u1", TRUE, "z1", attemptId, body) :
      attemptId \in HintInputs, body \in AnswerBodies }

(* ------------------------------- state --------------------------------- *)

Idle ==
  [pc |-> "idle", op |-> "none", userId |-> NoUser, quizId |-> "",
   attemptId |-> NoId, body |-> <<>>, resolved |-> NoId, attemptNo |-> 0,
   score |-> Null, total |-> 0]

Init ==
  /\ quizzes = QuizRows
  /\ questions = QuestionRows
  /\ choices = ChoiceRows
  /\ attempts = <<>>
  /\ answers = <<>>
  /\ clock = 1
  /\ txs = [t \in 1 .. MaxTx |-> Idle]
  /\ buckets = <<>>
  /\ calls = <<>>
  /\ resp = Response(0, "", NoId, 0, Null, 0)

\* Date.now() and CURRENT_TIMESTAMP: every write that stamps a time reads a
\* later time than the writes before it.
Now == clock + 1

CommitNoRollback(w, score, total) ==
  IF w.ok
  THEN /\ Len(w.attempts) <= MaxAttempts
       /\ attempts' = w.attempts
       /\ answers' = w.answers
       /\ clock' = IF w.attempts = attempts THEN clock ELSE Now
       /\ resp' = Response(200, "", w.id, w.attempts[w.id].attemptNo, score, total)
  ELSE /\ answers' = w.answers
       /\ UNCHANGED <<attempts, clock>>
       /\ resp' = Unhandled

\* The end of prisma.$transaction: the writes w become the store and the
\* handler answers 200, or a write failed, nothing is kept and the error
\* leaves the handler. The store holds at most MaxAttempts attempts.
Commit(w, score, total) ==
  IF w.ok
  THEN /\ Len(w.attempts) <= MaxAttempts
       /\ attempts' = w.attempts
       /\ answers' = w.answers
       /\ clock' = IF w.attempts = attempts THEN clock ELSE Now
       /\ resp' = Response(200, "", w.id, w.attempts[w.id].attemptNo, score, total)
  ELSE /\ UNCHANGED <<attempts, answers, clock>>
       /\ resp' = Unhandled

(* ------------------- requests executed one at a time ------------------- *)

\* POST /api/quiz/save
Save(userId, admitted, quizId, attemptId, body) ==
  LET pre == Precheck(userId, admitted, quizId)
  IN  /\ IF pre.status # 200
         THEN resp' = pre /\ UNCHANGED <<attempts, answers, clock>>
         ELSE \E resolved \in ResolveSave(attempts, attemptId, userId, quizId) :
                IF resolved # NoId
                THEN Commit(SaveUpsert(attempts, answers, resolved, body), Null, 0)
                ELSE Commit(SaveCreate(attempts, answers, userId, quizId,
                                       NextAttemptNo(attempts, userId, quizId),
                                       body, Now),
                            Null, 0)
      /\ UNCHANGED <<quizzes, questions, choices, txs, buckets, calls>>

\* POST /api/quiz/submit
Submit(userId, admitted, quizId, attemptId, body) ==
  LET pre == SubmitCheck(userId, admitted, quizId, body)
      existing == ResolveSubmit(attempts, attemptId, userId, quizId)
  IN  /\ IF pre.status # 200
         THEN resp' = pre /\ UNCHANGED <<attempts, answers, clock>>
         ELSE IF existing # NoId
         THEN Commit(SubmitFinalize(attempts, answers, existing, body, pre.score, Now),
                     pre.score, pre.totalQuestions)
         ELSE Commit(SubmitCreate(attempts, answers, userId, quizId,
                                  NextAttemptNo(attempts, userId, quizId),
                                  body, pre.score, Now),
                     pre.score, pre.totalQuestions)
      /\ UNCHANGED <<quizzes, questions, choices, txs, buckets, calls>>

Next ==
  \/ \E r \in Requests : Save(r.userId, r.admitted, r.quizId, r.attemptId, r.body)
  \/ \E r \in Requests : Submit(r.userId, r.admitted, r.quizId, r.attemptId, r.body)

Spec == Init /\ [][Next]_vars

NextAnswers ==
  \/ \E r \in AnswerRequests :
       Save(r.userId, r.admitted, r.quizId, r.attemptId, r.body)
  \/ \E r \in AnswerRequests :
       Submit(r.userId, r.admitted, r.quizId, r.attemptId, r.body)

SpecAnswers == Init /\ [][NextAnswers]_vars

(* ------------- requests whose transactions run interleaved ------------- *)
\* A handler is at one of: "resolve" (before its findFirst), "aggregate"
\* (before its aggregate), "write" (before the upserts of a resolved
\* attempt) or "create" (before attempt.create). Every statement reads the
\* committed store; the writes of a transaction reach the store together,
\* when it commits.

\* Specification SpecTx: both users on quiz "z1", every hint, a one-answer
\* body; and a request for the unpublished quiz.
TxRequests ==
  { Request(userId, TRUE, "z1", attemptId, <<Entry("q1", <<"a">>)>>) :
      userId \in Users, attemptId \in HintInputs } \cup
  { Request("u1", TRUE, "z3", NoId, <<>>) }

Started(r, pc, score, total) ==
  [pc |-> pc, op |-> IF score = Null THEN "save" ELSE "submit",
   userId |-> r.userId, quizId |-> r.quizId, attemptId |-> r.attemptId,
   body |-> r.body, resolved |-> NoId, attemptNo |-> 0, score |-> score,
   total |-> total]

\* Save up to its transaction (lines 28-48).
BeginSave(t, r) ==
  LET pre == Precheck(r.userId, r.admitted, r.quizId)
  IN  /\ txs[t].pc = "idle"
      /\ IF pre.status # 200
         THEN resp' = pre /\ UNCHANGED txs
         ELSE /\ txs' = [txs EXCEPT ![t] = Started(r, "resolve", Null, 0)]
              /\ UNCHANGED resp
      /\ UNCHANGED <<quizzes, questions, choices, attempts, answers, clock,
                     buckets, calls>>

\* Submit up to its transaction (lines 28-99); without a hint the
\* transaction starts at the aggregate.
BeginSubmit(t, r) ==
  LET pre == SubmitCheck(r.userId, r.admitted, r.quizId, r.body)
  IN  /\ txs[t].pc = "idle"
      /\ IF pre.status # 200
         THEN resp' = pre /\ UNCHANGED txs
         ELSE /\ txs' = [txs EXCEPT ![t] =
                           Started(r, IF r.attemptId # NoId THEN "resolve" ELSE "aggregate",
                                   pre.score, pre.totalQuestions)]
              /\ UNCHANGED resp
      /\ UNCHANGED <<quizzes, questions, choices, attempts, answers, clock,
                     buckets, calls>>

\* The findFirst of either handler.
TxResolve(t) ==
  LET tx == txs[t]
      found == IF tx.op = "save"
               THEN ResolveSave(attempts, tx.attemptId, tx.userId, tx.quizId)
               ELSE {ResolveSubmit(attempts, tx.attemptId, tx.userId, tx.quizId)}
  IN  /\ tx.pc = "resolve"
      /\ \E resolved \in found :
           txs' = [txs EXCEPT ![t].resolved = resolved,
                              ![t].pc = IF resolved # NoId THEN "write" ELSE "aggregate"]
      /\ UNCHANGED <<quizzes, questions, choices, attempts, answers, clock, resp,
                     buckets, calls>>

\* The aggregate of either handler: attemptNo = (max ?? 0) + 1.
TxAggregate(t) ==
  LET tx == txs[t]
  IN  /\ tx.pc = "aggregate"
      /\ txs' = [txs EXCEPT ![t].attemptNo = NextAttemptNo(attempts, tx.userId, tx.quizId),
                            ![t].pc = "create"]
      /\ UNCHANGED <<quizzes, questions, choices, attempts, answers, clock, resp,
                     buckets, calls>>

\* The upserts into the resolved attempt (and Submit's update), and the commit.
TxWrite(t) ==
  LET tx == txs[t]
  IN  /\ tx.pc = "write"
      /\ Commit(IF tx.op = "save"
                THEN SaveUpsert(attempts, answers, tx.resolved, tx.body)
                ELSE SubmitFinalize(attempts, answers, tx.resolved, tx.body, tx.score, Now),
                tx.score, tx.total)
      /\ txs' = [txs EXCEPT ![t] = Idle]
      /\ UNCHANGED <<quizzes, questions, choices, buckets, calls>>

\* attempt.create with its nested answers, and the commit.
TxCreate(t) ==
  LET tx == txs[t]
  IN  /\ tx.pc = "create"
      /\ Commit(IF tx.op = "save"
                THEN SaveCreate(attempts, answers, tx.userId, tx.quizId, tx.attemptNo,
                                tx.body, Now)
                ELSE SubmitCreate(attempts, answers, tx.userId, tx.quizId, tx.attemptNo,
                                  tx.body, tx.score, Now),
                tx.score, tx.total)
      /\ txs' = [txs EXCEPT ![t] = Idle]
      /\ UNCHANGED <<quizzes, questions, choices, buckets, calls>>

NextTx ==
  \/ \E t \in 1 .. MaxTx, r \in TxRequests : BeginSave(t, r)
  \/ \E t \in 1 .. MaxTx, r \in TxRequests : BeginSubmit(t, r)
  \/ \E t \in 1 .. MaxTx : TxResolve(t)
  \/ \E t \in 1 .. MaxTx : TxAggregate(t)
  \/ \E t \in 1 .. MaxTx : TxWrite(t)
  \/ \E t \in 1 .. MaxTx : TxCreate(t)

SpecTx == Init /\ [][NextTx]_vars

(* --------------------- concurrent first saves -------------------------- *)
\* Specification SpecRace: Saves without a hint only, so that one at a time
\* they always find the draft of their pair; their transactions interleave.

RaceRequests ==
  { Request(userId, TRUE, "z1", NoId, body) : userId \in Users, body \in Bodies }

NextRace ==
  \/ \E t \in 1 .. MaxTx, r \in RaceRequests : BeginSave(t, r)
  \/ \E t \in 1 .. MaxTx : TxResolve(t)
  \/ \E t \in 1 .. MaxTx : TxAggregate(t)
  \/ \E t \in 1 .. MaxTx : TxWrite(t)
  \/ \E t \in 1 .. MaxTx : TxCreate(t)

SpecRace == Init /\ [][NextRace]_vars

(* ------------------ a Save that overlaps a Submit ---------------------- *)
\* Specification SpecOverlap: user u1 on quiz "z1"; Saves with two different
\* one-answer bodies and Submits with one, every hint, two transactions whose
\* statements interleave.

OverlapSaves ==
  { Request("u1", TRUE, "z1", attemptId, body) :
      attemptId \in HintInputs,
      body \in { <<Entry("q1", <<"a">>)>>, <<Entry("q1", <<"b">>)>> } }

OverlapSubmits ==
  { Request("u1", TRUE, "z1", attemptId, <<Entry("q1", <<"a">>)>>) :
      attemptId \in HintInputs }

NextOverlap ==
  \/ \E t \in 1 .. MaxTx, r \in OverlapSaves : BeginSave(t, r)
  \/ \E t \in 1 .. MaxTx, r \in OverlapSubmits : BeginSubmit(t, r)
  \/ \E t \in 1 .. MaxTx : TxResolve(t)
  \/ \E t \in 1 .. MaxTx : TxAggregate(t)
  \/ \E t \in 1 .. MaxTx : TxWrite(t)
  \/ \E t \in 1 .. MaxTx : TxCreate(t)

SpecOverlap == Init /\ [][NextOverlap]_vars

(* ---------------------- the scoring step on its own --------------------- *)
\* Specification SpecScore: quiz "z1" holds question "q1", of either type
\* and with any of its three choices flagged correct (none and several
\* included), and question "q2" with the one choice "d". The step scores a
\* body of one entry for "q1", or of that entry and one for "q2".

ScoreChoices == {"a", "b", "c"}

SchemaQuestions(type) ==
  (  "q1" :> [quizId |-> "z1", type |-> type]
  @@ "q2" :> [quizId |-> "z1", type |-> "MULTIPLE_CHOICE"] )

SchemaChoices(correct) ==
  [c \in ScoreChoices \cup {"d"} |->
     IF c = "d" THEN [questionId |-> "q2", isCorrect |-> TRUE]
     ELSE [questionId |-> "q1", isCorrect |-> c \in correct]]

\* choiceIds of a body: up to MaxChoiceIds ids, in any order and repeated,
\* among the choices of "q1", the choice of "q2" and the empty id.
ScoreChoiceIds == SeqsUpTo(ScoreChoices \cup {"d", ""}, MaxChoiceIds)

ScoreBodies ==
  {<<Entry("q1", ids)>> : ids \in ScoreChoiceIds} \cup
  {<<Entry("q1", ids), Entry("q2", <<"d">>)>> : ids \in ScoreChoiceIds}

InitScore ==
  /\ quizzes = QuizRows
  /\ \E type \in {"SINGLE_CHOICE", "MULTIPLE_CHOICE"} : questions = SchemaQuestions(type)
  /\ \E correct \in SUBSET ScoreChoices : choices = SchemaChoices(correct)
  /\ attempts = <<>>
  /\ answers = <<>>
  /\ clock = 1
  /\ txs = [t \in 1 .. MaxTx |-> Idle]
  /\ buckets = <<>>
  /\ calls = <<>>
  /\ resp = [body |-> <<>>, status |-> 0, score |-> Null, marks |-> <<>>]

\* Lines 63-99 of Submit applied once to body: resp keeps the body and what
\* the loop made of it.
ScoreStep(body) ==
  LET v == ValidateAndScore("z1", body)
  IN  /\ resp.status = 0
      /\ resp' = [body |-> body, status |-> v.status, score |-> v.score,
                  marks |-> v.marks]
      /\ UNCHANGED <<quizzes, questions, choices, attempts, answers, clock, txs,
                     buckets, calls>>

NextScore == \E body \in ScoreBodies : ScoreStep(body)

SpecScore == InitScore /\ [][NextScore]_vars

(* ----------------------- admin question routes ------------------------- *)
\* src/src/app/api/admin/question/route.ts over the tables Question, Choice
\* and Answer. An absent string field of a body is "", an absent number is
\* Null; a body carries withChoices = TRUE when it has a choices array.

MaxQuestions == 4

MaxChoices == 9

\* Ids the store gives to new rows (cuid): the first unused one.
QuestionIdPool == <<"q4", "q5", "q6", "q7", "q8", "q10", "q11", "q12">>

ChoiceIdPool ==
  <<"h", "i", "j", "k", "l", "m", "n", "o", "p", "r", "s", "t", "u", "v", "w", "y">>

FreshId(pool, used) ==
  pool[CHOOSE i \in DOMAIN pool :
         /\ pool[i] \notin used
         /\ \A j \in 1 .. i - 1 : pool[j] \in used]

\* String.prototype.trim on the texts of the inputs: "x", " x " and " ".
Trim(text) == IF text = " " THEN "" ELSE IF text = " x " THEN "x" ELSE text

\* The response of a handler that answers with a question (or with ok alone).
QuestionOk(status, id) == [status |-> status, message |-> "", question |-> id]

QuestionError(message, status) ==
  [status |-> status, message |-> message, question |-> ""]

normalizeChoicesKeepBlank(inputs) ==
  [i \in DOMAIN inputs |->
     [inputs[i] EXCEPT !.order = IF inputs[i].order = Null
                                 THEN i - 1 ELSE inputs[i].order]]

\* inputs.map((c, idx) => ({ ...c, text: c.text.trim(), order: c.order ?? idx }))
\*       .filter((c) => c.text.length > 0)
normalizeChoices(inputs) ==
  LET trimmed == [i \in DOMAIN inputs |->
                    [inputs[i] EXCEPT !.text = Trim(inputs[i].text),
                                      !.order = IF inputs[i].order = Null
                                                THEN i - 1 ELSE inputs[i].order]]
      nonEmpty(c) == c.text # ""
  IN  SelectSeq(trimmed, nonEmpty)

CorrectCount(inputs) == Cardinality({i \in DOMAIN inputs : inputs[i].isCorrect})

\* The message of the first rule that fails, "" for none.
validateCorrectChoices(type, inputs) ==
  IF CorrectCount(inputs) < 1 THEN "At least 1 correct choice is required."
  ELSE IF type = "SINGLE_CHOICE" /\ CorrectCount(inputs) # 1
  THEN "Single-choice questions must have exactly 1 correct choice."
  ELSE ""

ChoicesOf(chs, questionId) == {c \in DOMAIN chs : chs[c].questionId = questionId}

\* The unique index Question_quizId_order_key, for a row other than id.
QuestionOrderTaken(qs, quizId, order, id) ==
  \E q \in DOMAIN qs : q # id /\ qs[q].quizId = quizId /\ qs[q].order = order

\* The unique index Choice_questionId_order_key, for a row other than id.
ChoiceOrderTaken(chs, questionId, order, id) ==
  \E c \in DOMAIN chs : c # id /\ chs[c].questionId = questionId /\ chs[c].order = order

\* r._max.order ?? -1
MaxOrder(qs, quizId) ==
  LET orders == {qs[q].order : q \in {p \in DOMAIN qs : qs[p].quizId = quizId}}
  IN  IF orders = {} THEN -1 ELSE CHOOSE n \in orders : \A m \in orders : m <= n

\* tx.choice.create for the inputs from the i-th on.
RECURSIVE CreateChoices(_, _, _, _)
CreateChoices(chs, questionId, incoming, i) ==
  IF i > Len(incoming)
  THEN [ok |-> TRUE, rows |-> chs]
  ELSE LET c  == incoming[i]
           id == FreshId(ChoiceIdPool, DOMAIN chs)
       IN  IF ChoiceOrderTaken(chs, questionId, c.order, id)
           THEN [ok |-> FALSE, rows |-> chs]
           ELSE CreateChoices(chs @@ (id :> [questionId |-> questionId,
                                             isCorrect |-> c.isCorrect,
                                             text |-> c.text, order |-> c.order]),
                              questionId, incoming, i + 1)

\* Rows of _AnswerToChoice go with the choices they name (ON DELETE CASCADE).
DropChoices(ans, gone) ==
  [i \in DOMAIN ans |-> [ans[i] EXCEPT !.choices = ans[i].choices \ gone]]

Without(rows, gone) == [r \in DOMAIN rows \ gone |-> rows[r]]

\* requireAdmin and rateLimit, the first two checks of every handler.
AdminCheck(role, admitted) ==
  IF role # "ADMIN" THEN QuestionError("Forbidden.", 403)
  ELSE IF ~admitted THEN QuestionError("Too many requests.", 429)
  ELSE QuestionOk(200, "")

\* A statement that throws outside any try block.
QuestionUnhandled == QuestionError("Internal Server Error", 500)

\* POST /api/admin/question
PostQuestion(role, admitted, body) ==
  LET pre == AdminCheck(role, admitted)
      type == IF body.type = "" THEN "SINGLE_CHOICE" ELSE body.type
      normalizedChoices == normalizeChoices(body.choices)
      validationMessage == validateCorrectChoices(type, normalizedChoices)
      order == IF body.order # Null THEN body.order
               ELSE MaxOrder(questions, body.quizId) + 1
      id == FreshId(QuestionIdPool, DOMAIN questions)
      w == CreateChoices(choices, id, normalizedChoices, 1)
  IN  /\ IF pre.status # 200
         THEN resp' = pre /\ UNCHANGED <<questions, choices>>
         ELSE IF body.quizId = "" \/ Trim(body.prompt) = ""
         THEN /\ resp' = QuestionError("quizId and prompt are required.", 400)
              /\ UNCHANGED <<questions, choices>>
         ELSE IF Len(body.choices) < 2
         THEN /\ resp' = QuestionError("At least 2 choices are required.", 400)
              /\ UNCHANGED <<questions, choices>>
         ELSE IF Len(normalizedChoices) < 2
         THEN /\ resp' = QuestionError("At least 2 non-empty choices are required.", 400)
              /\ UNCHANGED <<questions, choices>>
         ELSE IF validationMessage # ""
         THEN /\ resp' = QuestionError(validationMessage, 400)
              /\ UNCHANGED <<questions, choices>>
         ELSE IF \/ body.quizId \notin DOMAIN quizzes
                 \/ QuestionOrderTaken(questions, body.quizId, order, id)
                 \/ ~w.ok
         THEN resp' = QuestionUnhandled /\ UNCHANGED <<questions, choices>>
         ELSE /\ Cardinality(DOMAIN questions) < MaxQuestions
              /\ Cardinality(DOMAIN w.rows) <= MaxChoices
              /\ questions' = questions @@
                   (id :> [quizId |-> body.quizId, type |-> type, order |-> order])
              /\ choices' = w.rows
              /\ resp' = QuestionOk(201, id)
      /\ UNCHANGED <<quizzes, attempts, answers, clock, txs, buckets, calls>>

\* tx.question.update({ where: { id }, data: { order } })
SetOrder(qs, id, order) ==
  [ok |-> ~QuestionOrderTaken(qs, qs[id].quizId, order, id),
   rows |-> [qs EXCEPT ![id].order = order]]

\* The neighbour of q by order within its quiz: the set holding it, or {}.
Neighbor(qs, id, move) ==
  LET side == {p \in DOMAIN qs :
                 /\ qs[p].quizId = qs[id].quizId
                 /\ IF move = "UP" THEN qs[p].order < qs[id].order
                                   ELSE qs[p].order > qs[id].order}
  IN  {p \in side : \A o \in side : IF move = "UP" THEN qs[o].order <= qs[p].order
                                                  ELSE qs[o].order >= qs[p].order}

\* PUT /api/admin/question with body.move
MoveQuestion(role, admitted, id, move) ==
  LET pre == AdminCheck(role, admitted)
  IN  /\ IF pre.status # 200
         THEN resp' = pre /\ UNCHANGED questions
         ELSE IF id = ""
         THEN resp' = QuestionError("id is required.", 400) /\ UNCHANGED questions
         ELSE IF id \notin DOMAIN questions
         THEN resp' = QuestionError("Question not found.", 404) /\ UNCHANGED questions
         ELSE IF Neighbor(questions, id, move) = {}
         THEN resp' = QuestionOk(200, "") /\ UNCHANGED questions
         ELSE \E neighbor \in Neighbor(questions, id, move) :
                LET w1 == SetOrder(questions, id, questions[neighbor].order)
                    w2 == SetOrder(w1.rows, neighbor, questions[id].order)
                IN  IF w1.ok /\ w2.ok
                    THEN questions' = w2.rows /\ resp' = QuestionOk(200, "")
                    ELSE /\ resp' = QuestionError("Unique constraint failed", 400)
                         /\ UNCHANGED questions
      /\ UNCHANGED <<quizzes, choices, attempts, answers, clock, txs,
                     buckets, calls>>

\* The loop over incoming of the update: tx.choice.update for an input
\* with an id, tx.choice.create for one without.
RECURSIVE UpsertChoices(_, _, _, _)
UpsertChoices(chs, questionId, incoming, i) ==
  IF i > Len(incoming)
  THEN [status |-> 200, rows |-> chs]
  ELSE LET c == incoming[i]
       IN  IF c.id # ""
           THEN IF c.id \notin DOMAIN chs
                THEN [status |-> 404, rows |-> chs]
                ELSE IF ChoiceOrderTaken(chs, chs[c.id].questionId, c.order, c.id)
                THEN [status |-> 400, rows |-> chs]
                ELSE UpsertChoices([chs EXCEPT ![c.id].text = c.text,
                                               ![c.id].order = c.order,
                                               ![c.id].isCorrect = c.isCorrect],
                                   questionId, incoming, i + 1)
           ELSE LET w == CreateChoices(chs, questionId, <<c>>, 1)
                IN  IF ~w.ok
                    THEN [status |-> 400, rows |-> chs]
                    ELSE UpsertChoices(w.rows, questionId, incoming, i + 1)

\* The transaction of the update: [status, message, questions, choices, gone],
\* gone being the choices deleted. Any status but 200 is a throw, on which
\* the transaction keeps nothing.
UpdateQuestion(qs, chs, body) ==
  LET failed(status, message) ==
        [status |-> status, message |-> message, questions |-> qs,
         choices |-> chs, gone |-> {}]
      order == IF body.order # Null THEN body.order ELSE qs[body.id].order
      question == [qs[body.id] EXCEPT
                     !.type = IF body.type # "" THEN body.type ELSE @,
                     !.order = order]
      incoming == normalizeChoices(body.choices)
      validationMessage == validateCorrectChoices(question.type, incoming)
      existingIds == ChoicesOf(chs, body.id)
      incomingIds == {incoming[i].id : i \in DOMAIN incoming} \ {""}
      toDelete == existingIds \ incomingIds
      w == UpsertChoices(Without(chs, toDelete), body.id, incoming, 1)
  IN  IF body.id \notin DOMAIN qs
      THEN failed(404, "Record to update not found.")
      ELSE IF body.order # Null /\ QuestionOrderTaken(qs, qs[body.id].quizId, order, body.id)
      THEN failed(400, "Unique constraint failed")
      ELSE IF ~body.withChoices
      THEN [status |-> 200, message |-> "",
            questions |-> [qs EXCEPT ![body.id] = question],
            choices |-> chs, gone |-> {}]
      ELSE IF Len(incoming) < 2
      THEN failed(400, "At least 2 non-empty choices are required.")
      ELSE IF validationMessage # ""
      THEN failed(400, validationMessage)
      ELSE IF w.status = 404
      THEN failed(404, "Record to update not found.")
      ELSE IF w.status # 200
      THEN failed(400, "Unique constraint failed")
      ELSE [status |-> 200, message |-> "",
            questions |-> [qs EXCEPT ![body.id] = question],
            choices |-> w.rows, gone |-> toDelete]

PutQuestionNoRollback(role, admitted, body) ==
  LET pre == AdminCheck(role, admitted)
      w == UpdateQuestion(questions, choices, body)
  IN  /\ IF pre.status # 200
         THEN resp' = pre /\ UNCHANGED <<questions, choices, answers>>
         ELSE IF body.id = ""
         THEN /\ resp' = QuestionError("id is required.", 400)
              /\ UNCHANGED <<questions, choices, answers>>
         ELSE IF w.status # 200
         THEN /\ resp' = QuestionError(w.message, w.status)
              /\ questions' = IF body.id \in DOMAIN questions /\ body.type # ""
                              THEN [questions EXCEPT ![body.id].type = body.type]
                              ELSE questions
              /\ UNCHANGED <<choices, answers>>
         ELSE /\ Cardinality(DOMAIN w.choices) <= MaxChoices
              /\ questions' = w.questions
              /\ choices' = w.choices
              /\ answers' = DropChoices(answers, w.gone)
              /\ resp' = QuestionOk(200, body.id)
      /\ UNCHANGED <<quizzes, attempts, clock, txs, buckets, calls>>

\* PUT /api/admin/question without body.move
PutQuestion(role, admitted, body) ==
  LET pre == AdminCheck(role, admitted)
      w == UpdateQuestion(questions, choices, body)
  IN  /\ IF pre.status # 200
         THEN resp' = pre /\ UNCHANGED <<questions, choices, answers>>
         ELSE IF body.id = ""
         THEN /\ resp' = QuestionError("id is required.", 400)
              /\ UNCHANGED <<questions, choices, answers>>
         ELSE IF w.status # 200
         THEN /\ resp' = QuestionError(w.message, w.status)
              /\ UNCHANGED <<questions, choices, answers>>
         ELSE /\ Cardinality(DOMAIN w.choices) <= MaxChoices
              /\ questions' = w.questions
              /\ choices' = w.choices
              /\ answers' = DropChoices(answers, w.gone)
              /\ resp' = QuestionOk(200, body.id)
      /\ UNCHANGED <<quizzes, attempts, clock, txs, buckets, calls>>

DeleteUnrestricted(ans, id) == FALSE

\* The foreign key Answer_questionId_fkey (ON DELETE RESTRICT).
DeleteRestricted(ans, id) == \E i \in DOMAIN ans : ans[i].questionId = id

\* DELETE /api/admin/question
DeleteQuestion(role, admitted, id) ==
  LET pre == AdminCheck(role, admitted)
      gone == ChoicesOf(choices, id)
  IN  /\ IF pre.status # 200
         THEN resp' = pre /\ UNCHANGED <<questions, choices, answers>>
         ELSE IF id = ""
         THEN /\ resp' = QuestionError("id is required.", 400)
              /\ UNCHANGED <<questions, choices, answers>>
         ELSE IF id \notin DOMAIN questions \/ DeleteRestricted(answers, id)
         THEN /\ resp' = QuestionError(
                           "Unable to delete question (may have existing answers).", 409)
              /\ UNCHANGED <<questions, choices, answers>>
         ELSE /\ questions' = Without(questions, {id})
              /\ choices' = Without(choices, gone)
              /\ answers' = DropChoices(answers, gone)
              /\ resp' = QuestionOk(200, "")
      /\ UNCHANGED <<quizzes, attempts, clock, txs, buckets, calls>>

(* --------------------------- admin inputs ------------------------------ *)

ChoiceInput(id, text, isCorrect, order) ==
  [id |-> id, text |-> text, isCorrect |-> isCorrect, order |-> order]

CreateBody(quizId, prompt, type, order, inputs) ==
  [quizId |-> quizId, prompt |-> prompt, type |-> type, order |-> order,
   choices |-> inputs]

UpdateBody(id, type, order, withChoices, inputs) ==
  [id |-> id, type |-> type, order |-> order, withChoices |-> withChoices,
   choices |-> inputs]

\* A session of an admin, a session of a user, and an admin over the rate limit.
Admin == [role |-> "ADMIN", admitted |-> TRUE]

NotAdmitted == { [role |-> "USER", admitted |-> TRUE], [role |-> "ADMIN", admitted |-> FALSE] }

Right == ChoiceInput("", "x", TRUE, Null)

Wrong == ChoiceInput("", " x ", FALSE, Null)

Blank == ChoiceInput("", " ", TRUE, Null)

\* Bodies of POST: one with a blank choice among three, one of the other
\* type with orders given (refused while order 0 is taken), and one for each
\* other way to be refused: no quizId, a blank prompt, one choice, one
\* non-blank choice, no correct choice, two correct choices for
\* SINGLE_CHOICE (given or by default), a correct choice that is blank only,
\* a quiz that does not exist.
PostBodies ==
  { CreateBody("z1", "p", "", Null, <<Blank, Right, Wrong>>),
    CreateBody("", "p", "", Null, <<Right, Wrong>>),
    CreateBody("z1", " ", "", Null, <<Right, Wrong>>),
    CreateBody("z1", "p", "", Null, <<Right>>),
    CreateBody("z1", "p", "", Null, <<Right, Blank>>),
    CreateBody("z1", "p", "", Null, <<Wrong, Wrong>>),
    CreateBody("z1", "p", "SINGLE_CHOICE", Null, <<Right, Right>>),
    CreateBody("z1", "p", "", Null, <<Right, Right>>),
    CreateBody("z1", "p", "MULTIPLE_CHOICE", Null, <<Blank, Wrong, Wrong>>),
    CreateBody("z1", "p", "MULTIPLE_CHOICE", 0,
               <<ChoiceInput("", "x", TRUE, 5), ChoiceInput("", "x", TRUE, 4)>>),
    CreateBody("z9", "p", "", Null, <<Right, Wrong>>) }

\* Ids of questions in requests: the rows of the schema, the first new row,
\* an id of no row ("q9") and no id.
QuestionIdInputs == {"q1", "q2", "q4", "q9", ""}

\* Bodies of PUT without move: the type alone, the order alone, and choices
\* (with or without a type) that are new, that carry the ids of the
\* question's own choices, the ids of another question's choices, or an id
\* of no choice ("z"); and bodies that give a type or an order together with
\* choices the rules refuse.
PutBodies ==
  { UpdateBody(id, type, Null, FALSE, <<>>) :
      id \in QuestionIdInputs, type \in {"SINGLE_CHOICE", "MULTIPLE_CHOICE"} } \cup
  { UpdateBody("q2", "", 0, FALSE, <<>>),
    UpdateBody("q2", "", 2, FALSE, <<>>),
    UpdateBody("q2", "", Null, TRUE, <<Right, Wrong>>),
    UpdateBody("q2", "", Null, TRUE, <<Right>>),
    UpdateBody("q1", "", Null, TRUE, <<Right, Right>>),
    UpdateBody("q1", "MULTIPLE_CHOICE", Null, TRUE, <<Right, Right>>),
    UpdateBody("q2", "SINGLE_CHOICE", 2, TRUE, <<Right, Right>>),
    UpdateBody("q1", "MULTIPLE_CHOICE", Null, TRUE, <<Wrong, Wrong>>),
    UpdateBody("q1", "MULTIPLE_CHOICE", Null, TRUE, <<Right, Blank>>),
    UpdateBody("q1", "", Null, TRUE,
               <<ChoiceInput("a", "x", FALSE, Null), ChoiceInput("b", "x", TRUE, Null)>>),
    UpdateBody("q1", "", Null, TRUE,
               <<ChoiceInput("b", "x", TRUE, Null), ChoiceInput("a", "x", FALSE, Null)>>),
    UpdateBody("q1", "", Null, TRUE,
               <<ChoiceInput("c", "x", TRUE, Null), ChoiceInput("d", "x", FALSE, Null)>>),
    UpdateBody("q1", "", Null, TRUE,
               <<ChoiceInput("a", "x", TRUE, Null), ChoiceInput("z", "x", FALSE, Null)>>) }

\* The drafts that give the questions answers.
AdminSaves ==
  { Request("u1", TRUE, "z1", NoId, <<Entry("q1", <<"a">>)>>) }

\* The admin sends every body; a caller who is not admitted sends one.
NextAdmin ==
  \/ \E body \in PostBodies : PostQuestion(Admin.role, Admin.admitted, body)
  \/ \E id \in QuestionIdInputs, move \in {"UP", "DOWN"} :
       MoveQuestion(Admin.role, Admin.admitted, id, move)
  \/ \E body \in PutBodies : PutQuestion(Admin.role, Admin.admitted, body)
  \/ \E id \in QuestionIdInputs : DeleteQuestion(Admin.role, Admin.admitted, id)
  \/ \E c \in NotAdmitted :
       \/ PostQuestion(c.role, c.admitted, CreateBody("z1", "p", "", Null, <<Right, Wrong>>))
       \/ MoveQuestion(c.role, c.admitted, "q1", "DOWN")
       \/ PutQuestion(c.role, c.admitted, UpdateBody("q2", "SINGLE_CHOICE", Null, FALSE, <<>>))
       \/ DeleteQuestion(c.role, c.admitted, "q2")
  \/ \E r \in AdminSaves : Save(r.userId, r.admitted, r.quizId, r.attemptId, r.body)

SpecAdmin == Init /\ [][NextAdmin]_vars

(* ------------------------ quiz reads and publication ------------------- *)
\* src/unnamed/part_003: GET lists the published quizzes or reads one quiz,
\* PUT lets an admin set the publication flag.

\* The callers: an admin session, a user session, no session.
Roles == {"ADMIN", "USER", NoUser}

QuizOk(ids) == [status |-> 200, message |-> "", quizzes |-> ids, quiz |-> <<>>]

QuizError(message, status) ==
  [status |-> status, message |-> message, quizzes |-> {}, quiz |-> <<>>]

\* orderBy: { order: "asc" } over the rows ids of a table.
RECURSIVE ByOrder(_, _)
ByOrder(rows, ids) ==
  IF ids = {}
  THEN <<>>
  ELSE LET first == CHOOSE i \in ids : \A j \in ids : rows[i].order <= rows[j].order
       IN  <<first>> \o ByOrder(rows, ids \ {first})

ChoiceViewWithCorrect(chs, c) ==
  [id |-> c, text |-> chs[c].text, order |-> chs[c].order,
   isCorrect |-> chs[c].isCorrect]

\* select: { id: true, text: true, order: true }
ChoiceView(chs, c) == [id |-> c, text |-> chs[c].text, order |-> chs[c].order]

\* A question of the quiz with its choices, as include gives it.
QuestionView(qs, chs, q) ==
  LET sorted == ByOrder(chs, {c \in DOMAIN chs : chs[c].questionId = q})
  IN  [id |-> q, type |-> qs[q].type, order |-> qs[q].order,
       choices |-> [i \in DOMAIN sorted |-> ChoiceView(chs, sorted[i])]]

\* The questions of quiz id in the response, in their order.
QuizView(qs, chs, id) ==
  LET sorted == ByOrder(qs, {q \in DOMAIN qs : qs[q].quizId = id})
  IN  [i \in DOMAIN sorted |-> QuestionView(qs, chs, sorted[i])]

\* The response of GET over the tables qzs, qs and chs: id = "" is a request
\* without ?id=, answered with the list of the published quizzes.
QuizRead(qzs, qs, chs, role, admitted, id) ==
  IF ~admitted THEN QuizError("Too many requests.", 429)
  ELSE IF id = "" THEN QuizOk({z \in DOMAIN qzs : qzs[z].isPublished})
  ELSE IF id \notin DOMAIN qzs THEN QuizError("Quiz not found.", 404)
  ELSE IF ~qzs[id].isPublished /\ role # "ADMIN"
  THEN QuizError("Quiz not available.", 404)
  ELSE [QuizOk({id}) EXCEPT !.quiz = QuizView(qs, chs, id)]

QuizGet(role, admitted, id) == QuizRead(quizzes, questions, choices, role, admitted, id)

\* GET /api/quiz
GetQuiz(role, admitted, id) ==
  /\ resp' = QuizGet(role, admitted, id)
  /\ UNCHANGED <<quizzes, questions, choices, attempts, answers, clock, txs,
                 buckets, calls>>

\* PUT /api/quiz with body { id, isPublished }
PutQuiz(role, admitted, id, isPublished) ==
  /\ IF role # "ADMIN"
     THEN resp' = QuizError("Unauthorized.", 401) /\ UNCHANGED quizzes
     ELSE IF ~admitted
     THEN resp' = QuizError("Too many requests.", 429) /\ UNCHANGED quizzes
     ELSE IF id = ""
     THEN resp' = QuizError("id is required.", 400) /\ UNCHANGED quizzes
     ELSE IF id \notin DOMAIN quizzes
     THEN resp' = QuizError("Internal Server Error", 500) /\ UNCHANGED quizzes
     ELSE /\ quizzes' = [quizzes EXCEPT ![id].isPublished = isPublished]
          /\ resp' = QuizOk({id})
  /\ UNCHANGED <<questions, choices, attempts, answers, clock, txs,
                 buckets, calls>>

\* Specification SpecVisible: quiz "z1" (published at first), "z3" (not
\* published at first), "z9" (no row) and no id; Save and Submit of user u1
\* and of no session, with and without a hint.
QuizIdInputs == {"z1", "z3", "z9", ""}

VisibleRequests ==
  { Request(userId, admitted, quizId, attemptId, <<Entry("q1", <<"a">>)>>) :
      userId \in {"u1", NoUser}, admitted \in BOOLEAN, quizId \in QuizIdInputs,
      attemptId \in {NoId, 1} }

NextVisible ==
  \/ \E role \in Roles, admitted \in BOOLEAN, id \in QuizIdInputs :
       GetQuiz(role, admitted, id)
  \/ \E role \in Roles, admitted \in BOOLEAN, id \in QuizIdInputs, isPublished \in BOOLEAN :
       PutQuiz(role, admitted, id, isPublished)
  \/ \E r \in VisibleRequests : Save(r.userId, r.admitted, r.quizId, r.attemptId, r.body)
  \/ \E r \in VisibleRequests : Submit(r.userId, r.admitted, r.quizId, r.attemptId, r.body)

SpecVisible == Init /\ [][NextVisible]_vars

(* ------------------- quiz reads over every answer key ------------------ *)
\* Specification SpecRead: the store starts with any answer key the authoring
\* rules accept (one correct choice for a SINGLE_CHOICE question, one or more
\* for a MULTIPLE_CHOICE one); quizzes are read and published.

\* chs with the flag isCorrect set for the choices of correct and no other.
Reflag(chs, correct) ==
  [c \in DOMAIN chs |-> [chs[c] EXCEPT !.isCorrect = (c \in correct)]]

AnswerKeys ==
  { correct \in SUBSET DOMAIN ChoiceRows :
      \A q \in DOMAIN QuestionRows :
        LET n == Cardinality({c \in correct : ChoiceRows[c].questionId = q})
        IN  IF QuestionRows[q].type = "SINGLE_CHOICE" THEN n = 1 ELSE n >= 1 }

InitRead ==
  /\ quizzes = QuizRows
  /\ questions = QuestionRows
  /\ \E correct \in AnswerKeys : choices = Reflag(ChoiceRows, correct)
  /\ attempts = <<>>
  /\ answers = <<>>
  /\ clock = 1
  /\ txs = [t \in 1 .. MaxTx |-> Idle]
  /\ buckets = <<>>
  /\ calls = <<>>
  /\ resp = Response(0, "", NoId, 0, Null, 0)

NextRead ==
  \/ \E role \in Roles, admitted \in BOOLEAN, id \in QuizIdInputs :
       GetQuiz(role, admitted, id)
  \/ \E id \in QuizIdInputs, isPublished \in BOOLEAN :
       PutQuiz(Admin.role, Admin.admitted, id, isPublished)

SpecRead == InitRead /\ [][NextRead]_vars

(* ----------------------------- rate limiter ---------------------------- *)
\* src/src/lib/apiAuth.ts, rateLimit over the map buckets. clock is
\* Date.now(); calls is the list of the calls made so far, each with the
\* value it returned. The routes call rateLimit with one limit and one
\* window per key (save/route.ts line 32, submit/route.ts line 32); the
\* limits and the window are scaled down, the clock counts units of 20 s.

WindowMs == 3

SaveLimit == 3

SubmitLimit == 2

MaxNow == 7

MaxCalls == 5

Options(key, limit, windowMs) == [key |-> key, limit |-> limit, windowMs |-> windowMs]

RateOptions ==
  { Options("quiz:save:u1:ip", SaveLimit, WindowMs),
    Options("quiz:submit:u1:ip", SubmitLimit, WindowMs) }

RateLimitResult(ok, limit, remaining, resetMs) ==
  [ok |-> ok, limit |-> limit, remaining |-> remaining, resetMs |-> resetMs]

rateLimitOverLimit(bkts, key, limit, windowMs, now) ==
  IF key \notin DOMAIN bkts \/ bkts[key].resetMs <= now
  THEN [result  |-> RateLimitResult(TRUE, limit, limit - 1, now + windowMs),
        buckets |-> (key :> [resetMs |-> now + windowMs, count |-> 1]) @@ bkts]
  ELSE IF bkts[key].count > limit
  THEN [result  |-> RateLimitResult(FALSE, limit, 0, bkts[key].resetMs),
        buckets |-> bkts]
  ELSE [result  |-> RateLimitResult(TRUE, limit, limit - (bkts[key].count + 1),
                                    bkts[key].resetMs),
        buckets |-> [bkts EXCEPT ![key].count = @ + 1]]

rateLimitLateExpiry(bkts, key, limit, windowMs, now) ==
  IF key \notin DOMAIN bkts \/ bkts[key].resetMs < now
  THEN [result  |-> RateLimitResult(TRUE, limit, limit - 1, now + windowMs),
        buckets |-> (key :> [resetMs |-> now + windowMs, count |-> 1]) @@ bkts]
  ELSE IF bkts[key].count >= limit
  THEN [result  |-> RateLimitResult(FALSE, limit, 0, bkts[key].resetMs),
        buckets |-> bkts]
  ELSE [result  |-> RateLimitResult(TRUE, limit, limit - (bkts[key].count + 1),
                                    bkts[key].resetMs),
        buckets |-> [bkts EXCEPT ![key].count = @ + 1]]

\* The value returned and the map after the call, for Date.now() = now.
rateLimit(bkts, key, limit, windowMs, now) ==
  IF key \notin DOMAIN bkts \/ bkts[key].resetMs <= now
  THEN [result  |-> RateLimitResult(TRUE, limit, limit - 1, now + windowMs),
        buckets |-> (key :> [resetMs |-> now + windowMs, count |-> 1]) @@ bkts]
  ELSE IF bkts[key].count >= limit
  THEN [result  |-> RateLimitResult(FALSE, limit, 0, bkts[key].resetMs),
        buckets |-> bkts]
  ELSE [result  |-> RateLimitResult(TRUE, limit, limit - (bkts[key].count + 1),
                                    bkts[key].resetMs),
        buckets |-> [bkts EXCEPT ![key].count = @ + 1]]

\* One call of rateLimit at a time now, not before the time of the last call.
RateLimit(o, now) ==
  /\ Len(calls) < MaxCalls
  /\ now >= clock
  /\ LET r == rateLimit(buckets, o.key, o.limit, o.windowMs, now)
     IN  /\ buckets' = r.buckets
         /\ calls' = Append(calls, [key |-> o.key, now |-> now, result |-> r.result])
  /\ clock' = now
  /\ UNCHANGED <<quizzes, questions, choices, attempts, answers, txs, resp>>

NextRate == \E o \in RateOptions, now \in 1 .. MaxNow : RateLimit(o, now)

SpecRate == Init /\ [][NextRate]_vars

(* ================================ claims ================================ *)

\* The choices a body entry submits: its choiceIds as a set. An empty id
\* names no choice and is not a member.
Chosen(a) == {cid \in Range(a.choiceIds) : cid # ""}

\* The choices of a question that are flagged correct.
Flagged(questionId) ==
  {c \in DOMAIN choices : choices[c].questionId = questionId /\ choices[c].isCorrect}

\* C7: the scoring step marks an entry for a SINGLE_CHOICE question correct
\* if and only if its set of submitted choices has exactly one element, that
\* choice is flagged correct, and the question has exactly one choice flagged
\* correct.
C7_SingleChoiceScoring ==
  \A i \in DOMAIN resp.marks :
    LET a == resp.body[i]
    IN  questions[a.questionId].type = "SINGLE_CHOICE" =>
          ( resp.marks[i] <=>
              /\ Cardinality(Chosen(a)) = 1
              /\ Chosen(a) \subseteq Flagged(a.questionId)
              /\ Cardinality(Flagged(a.questionId)) = 1 )

\* C7 witness: a SINGLE_CHOICE question with one correct choice, submitted
\* as a repeated id, is marked correct.
C7_Witness ==
  /\ resp.status = 200
  /\ questions["q1"].type = "SINGLE_CHOICE"
  /\ Len(resp.body[1].choiceIds) = 2
  /\ resp.marks[1]

\* C8: the scoring step marks an entry for a MULTIPLE_CHOICE question correct
\* if and only if its set of submitted choices equals the set of choices
\* flagged correct, whatever the order and repetition of the ids.
C8_MultipleChoiceScoring ==
  \A i \in DOMAIN resp.marks :
    LET a == resp.body[i]
    IN  questions[a.questionId].type = "MULTIPLE_CHOICE" =>
          (resp.marks[i] <=> Chosen(a) = Flagged(a.questionId))

\* C8 witness: a MULTIPLE_CHOICE question with two correct choices, submitted
\* as three ids with one repeated, is marked correct.
C8_Witness ==
  /\ resp.status = 200
  /\ questions["q1"].type = "MULTIPLE_CHOICE"
  /\ Cardinality(Flagged("q1")) = 2
  /\ Len(resp.body[1].choiceIds) = 3
  /\ resp.marks[1]

AttemptsOf(atts, userId, quizId) ==
  {i \in DOMAIN atts : atts[i].userId = userId /\ atts[i].quizId = quizId}

\* C1: each (user, quiz) pair has at most one attempt with status IN_PROGRESS.
C1_AtMostOneInProgress ==
  \A userId \in Users, quizId \in DOMAIN quizzes :
    Cardinality(InProgressOf(attempts, userId, quizId)) <= 1

\* C5: an accepted Submit for a (user, quiz) pair that has an IN_PROGRESS
\* attempt finalizes one of the pair's IN_PROGRESS attempts and creates no
\* attempt, with a matching hint, without a hint and with a hint that does
\* not match.
C5_SubmitResolvesAsSave ==
  [][ \A r \in Requests :
        ( /\ resp'.status = 200
          /\ InProgressOf(attempts, r.userId, r.quizId) # {}
          /\ Submit(r.userId, r.admitted, r.quizId, r.attemptId, r.body) )
        => /\ Len(attempts') = Len(attempts)
           /\ \E i \in InProgressOf(attempts, r.userId, r.quizId) :
                attempts'[i].status = "SUBMITTED" ]_vars

\* C9: an accepted Save for a (user, quiz) pair without attempts creates
\* exactly one attempt, with attemptNo 1 and status IN_PROGRESS; an accepted
\* Submit of the same user carrying that attempt's id, while it is the pair's
\* only attempt, sets that attempt to SUBMITTED with a score and a
\* submittedAt, and the pair still has exactly that one attempt.
C9_FirstSaveThenSubmit ==
  [][ \A r \in Requests :
        /\ ( /\ resp'.status = 200
             /\ AttemptsOf(attempts, r.userId, r.quizId) = {}
             /\ Save(r.userId, r.admitted, r.quizId, r.attemptId, r.body) )
           => /\ Len(attempts') = Len(attempts) + 1
              /\ SubSeq(attempts', 1, Len(attempts)) = attempts
              /\ AttemptsOf(attempts', r.userId, r.quizId) = {Len(attempts')}
              /\ attempts'[Len(attempts')].attemptNo = 1
              /\ attempts'[Len(attempts')].status = "IN_PROGRESS"
              /\ resp'.attemptId = Len(attempts')
              /\ resp'.attemptNo = 1
        /\ ( /\ resp'.status = 200
             /\ AttemptsOf(attempts, r.userId, r.quizId) = {r.attemptId}
             /\ attempts[r.attemptId].attemptNo = 1
             /\ attempts[r.attemptId].status = "IN_PROGRESS"
             /\ Submit(r.userId, r.admitted, r.quizId, r.attemptId, r.body) )
           => /\ Len(attempts') = Len(attempts)
              /\ AttemptsOf(attempts', r.userId, r.quizId) = {r.attemptId}
              /\ attempts'[r.attemptId].attemptNo = 1
              /\ attempts'[r.attemptId].status = "SUBMITTED"
              /\ attempts'[r.attemptId].score = resp'.score
              /\ attempts'[r.attemptId].score # Null
              /\ attempts'[r.attemptId].submittedAt # Null
              /\ resp'.attemptId = r.attemptId
              /\ \A i \in DOMAIN attempts : i # r.attemptId => attempts'[i] = attempts[i]
    ]_vars

\* C9 witness: the only attempt of u1 for z1 has attemptNo 1 and was
\* submitted after it was started, so a Submit finalized the draft of a Save.
C9_Witness ==
  /\ AttemptsOf(attempts, "u1", "z1") = {1}
  /\ attempts[1].attemptNo = 1
  /\ attempts[1].status = "SUBMITTED"
  /\ attempts[1].startedAt < attempts[1].submittedAt
  /\ resp.status = 200
  /\ resp.attemptId = 1

\* The entry of a body that answers a question: the last one for it.
LastEntry(body, questionId) ==
  body[CHOOSE i \in DOMAIN body :
         /\ body[i].questionId = questionId
         /\ \A j \in DOMAIN body : body[j].questionId = questionId => j <= i]

Answered(body) == {body[i].questionId : i \in DOMAIN body}

\* A question is answered correctly by a body: SINGLE_CHOICE by exactly its
\* one correct choice, MULTIPLE_CHOICE by exactly its set of correct choices.
AnsweredCorrectly(body, questionId) ==
  /\ questionId \in Answered(body)
  /\ LET chosen == Chosen(LastEntry(body, questionId))
     IN  IF questions[questionId].type = "SINGLE_CHOICE"
         THEN Cardinality(chosen) = 1 /\ chosen = Flagged(questionId)
         ELSE chosen = Flagged(questionId)

QuestionsOf(quizId) == {q \in DOMAIN questions : questions[q].quizId = quizId}

\* C3: the score an accepted Submit persists and returns is the number of
\* questions of the quiz that the body answers correctly, a question without
\* an answer counting as incorrect; it lies between 0 and totalQuestions.
C3_ScoreCountsQuestions ==
  [][ \A r \in AnswerRequests :
        ( /\ resp'.status = 200
          /\ Submit(r.userId, r.admitted, r.quizId, r.attemptId, r.body) )
        => /\ resp'.score =
                Cardinality({q \in QuestionsOf(r.quizId) : AnsweredCorrectly(r.body, q)})
           /\ attempts'[resp'.attemptId].score = resp'.score
           /\ 0 <= resp'.score
           /\ resp'.score <= resp'.totalQuestions ]_vars

\* An entry names a question that is not of the quiz, or a choice that is
\* not of the entry's question.
InvalidEntry(quizId, a) ==
  \/ a.questionId \notin QuestionsOf(quizId)
  \/ \E cid \in Chosen(a) :
       cid \notin DOMAIN choices \/ choices[cid].questionId # a.questionId

C10_SaveIdempotent ==
  [][ \A r \in AnswerRequests :
        ( /\ resp'.status = 200
          /\ Save(r.userId, r.admitted, r.quizId, r.attemptId, r.body) )
        => LET id == resp'.attemptId
               again == SaveUpsert(attempts', answers', id, r.body)
           IN  /\ id \in ResolveSave(attempts', id, r.userId, r.quizId)
               /\ \A q \in Answered(r.body) :
                    /\ Cardinality(AnswerRows(answers', id, q)) = 1
                    /\ \A i \in AnswerRows(answers', id, q) :
                         answers'[i].choices = Range(LastEntry(r.body, q).choiceIds)
               /\ again.ok
               /\ again.attempts = attempts'
               /\ again.answers = answers' ]_vars

\* C10 witness: after a Save the draft holds one Answer for each of the two
\* questions of its body.
C10_Witness ==
  /\ resp.status = 200
  /\ resp.score = Null
  /\ resp.attemptId = 1
  /\ Len(attempts) = 1
  /\ attempts[1].status = "IN_PROGRESS"
  /\ Len(answers) = 2
  /\ answers[1] = [attemptId |-> 1, questionId |-> "q1", choices |-> {"a"}]
  /\ answers[2] = [attemptId |-> 1, questionId |-> "q2", choices |-> {"c", "d"}]

\* C2: no two attempts of a (user, quiz) pair share an attemptNo, and an
\* attempt that is created gets an attemptNo greater than that of every
\* attempt of its pair that existed before it; attempts that exist keep
\* their attemptNo.
C2_AttemptNoIncreasing ==
  [][ /\ \A i, j \in DOMAIN attempts' :
           ( /\ attempts'[i].userId = attempts'[j].userId
             /\ attempts'[i].quizId = attempts'[j].quizId
             /\ attempts'[i].attemptNo = attempts'[j].attemptNo ) => i = j
      /\ \A j \in DOMAIN attempts :
           /\ j \in DOMAIN attempts'
           /\ attempts'[j].attemptNo = attempts[j].attemptNo
           /\ attempts'[j].userId = attempts[j].userId
           /\ attempts'[j].quizId = attempts[j].quizId
      /\ \A i \in DOMAIN attempts' \ DOMAIN attempts :
           \A j \in AttemptsOf(attempts, attempts'[i].userId, attempts'[i].quizId) :
             attempts'[i].attemptNo > attempts[j].attemptNo ]_vars

\* C2 witness: two transactions of one pair raced for an attemptNo; one was
\* refused by the unique index, and the pair's attempts are numbered 1 and 2.
C2_Witness ==
  /\ resp.status = 500
  /\ Len(attempts) = 2
  /\ AttemptsOf(attempts, "u1", "z1") = {1, 2}
  /\ attempts[1].attemptNo = 1
  /\ attempts[2].attemptNo = 2

\* C4: once an attempt is SUBMITTED, no step writes its status, score or
\* submittedAt again.
C4_SubmittedOnce ==
  [][ \A i \in DOMAIN attempts :
        attempts[i].status = "SUBMITTED" =>
          /\ attempts'[i].status = attempts[i].status
          /\ attempts'[i].score = attempts[i].score
          /\ attempts'[i].submittedAt = attempts[i].submittedAt ]_vars

\* The choices of a question that are flagged correct, in the store chs.
FlaggedIn(chs, questionId) == {c \in ChoicesOf(chs, questionId) : chs[c].isCorrect}

\* C11: every stored question has at least 2 choices with non-empty text and
\* at least 1 choice flagged correct, and every SINGLE_CHOICE question has
\* exactly 1 choice flagged correct.
C11_QuestionsWellFormed ==
  \A q \in DOMAIN questions :
    /\ Cardinality({c \in ChoicesOf(choices, q) : choices[c].text # ""}) >= 2
    /\ Cardinality(FlaggedIn(choices, q)) >= 1
    /\ questions[q].type = "SINGLE_CHOICE" => Cardinality(FlaggedIn(choices, q)) = 1

\* C12: a reorder of a question that has a neighbour in the direction of the
\* move is answered 200 and exchanges the order values of the two questions,
\* every other question keeping its order.
C12_MoveSwapsNeighbours ==
  [][ \A id \in QuestionIdInputs, move \in {"UP", "DOWN"} :
        ( /\ id \in DOMAIN questions
          /\ Neighbor(questions, id, move) # {}
          /\ MoveQuestion(Admin.role, Admin.admitted, id, move) )
        => /\ resp'.status = 200
           /\ \E n \in Neighbor(questions, id, move) :
                /\ questions'[id].order = questions[n].order
                /\ questions'[n].order = questions[id].order
                /\ \A q \in DOMAIN questions \ {id, n} : questions'[q] = questions[q]
    ]_vars

\* A quiz that has a row and is not published.
Unpublished(id) == id \in DOMAIN quizzes /\ ~quizzes[id].isPublished

\* C13: for a caller who is not an admin, a request about an unpublished
\* quiz gets the response (status and body) that the same request gets for a
\* quiz id of no row, for GET by id, Save and Submit.
C13_UnpublishedAsNotFound ==
  [][ /\ \A role \in Roles \ {"ADMIN"}, admitted \in BOOLEAN, id \in QuizIdInputs :
           (Unpublished(id) /\ GetQuiz(role, admitted, id))
           => resp' = QuizGet(role, admitted, "z9")
      /\ \A r \in VisibleRequests :
           /\ ( /\ Unpublished(r.quizId)
                /\ Save(r.userId, r.admitted, r.quizId, r.attemptId, r.body) )
              => resp' = Precheck(r.userId, r.admitted, "z9")
           /\ ( /\ Unpublished(r.quizId)
                /\ Submit(r.userId, r.admitted, r.quizId, r.attemptId, r.body) )
              => resp' = SubmitCheck(r.userId, r.admitted, "z9", r.body)
    ]_vars

\* C14: for a caller who is not an admin, GET by id of an unpublished quiz is
\* answered 404 once past the rate limit and never with the quiz, the list
\* never holds an unpublished quiz, and Save and Submit against an
\* unpublished quiz are answered 404 once past the session, rate limit and
\* payload checks, and never change an attempt or an answer.
C14_UnpublishedInvisible ==
  [][ /\ \A role \in Roles \ {"ADMIN"}, admitted \in BOOLEAN, id \in QuizIdInputs :
           GetQuiz(role, admitted, id)
           => /\ \A z \in resp'.quizzes : ~Unpublished(z)
              /\ (Unpublished(id) /\ admitted) => resp'.status = 404
      /\ \A r \in VisibleRequests :
           ( /\ Unpublished(r.quizId)
             /\ \/ Save(r.userId, r.admitted, r.quizId, r.attemptId, r.body)
                \/ Submit(r.userId, r.admitted, r.quizId, r.attemptId, r.body) )
           => /\ attempts' = attempts
              /\ answers' = answers
              /\ resp'.status # 200
              /\ (r.userId # NoUser /\ r.admitted) => resp'.status = 404
    ]_vars

\* C14 witness: quiz z1 was unpublished after u1 saved a draft for it, and
\* the next request of u1 against it was answered 404 with the draft kept.
C14_Witness ==
  /\ Unpublished("z1")
  /\ Len(attempts) = 1
  /\ attempts[1].quizId = "z1"
  /\ attempts[1].status = "IN_PROGRESS"
  /\ resp = JsonError("Quiz not available.", 404)

\* C15: when a Save transaction reaches its attempt.create, the create is
\* refused exactly if an attempt of the pair already has the attemptNo the
\* transaction computed; otherwise it commits a new IN_PROGRESS attempt with
\* that attemptNo, whether or not the pair has an IN_PROGRESS attempt by then.
C15_OnlySameNumberRefused ==
  [][ \A t \in 1 .. MaxTx :
        (txs[t].pc = "create" /\ TxCreate(t))
        => IF \E i \in DOMAIN attempts : /\ attempts[i].userId = txs[t].userId
                                         /\ attempts[i].quizId = txs[t].quizId
                                         /\ attempts[i].attemptNo = txs[t].attemptNo
           THEN resp'.status = 500 /\ attempts' = attempts
           ELSE /\ resp'.status = 200
                /\ Len(attempts') = Len(attempts) + 1
                /\ SubSeq(attempts', 1, Len(attempts)) = attempts
                /\ attempts'[Len(attempts')].status = "IN_PROGRESS"
                /\ attempts'[Len(attempts')].attemptNo = txs[t].attemptNo
    ]_vars

\* C15 witness: both Saves committed and the pair (u1, z1) has two
\* IN_PROGRESS attempts, numbered 1 and 2.
C15_Witness ==
  /\ resp.status = 200
  /\ \A t \in 1 .. MaxTx : txs[t].pc = "idle"
  /\ InProgressOf(attempts, "u1", "z1") = {1, 2}
  /\ attempts[1].attemptNo = 1
  /\ attempts[2].attemptNo = 2

\* C16: an accepted Save uses the hinted attempt if the hint is an
\* IN_PROGRESS attempt of the user and quiz; otherwise, with the hint absent
\* or not matching, it uses the most recently started IN_PROGRESS attempt of
\* the pair if there is one; it creates an attempt only if the pair has no
\* IN_PROGRESS attempt.
C16_SaveResolution ==
  [][ \A r \in Requests :
        ( /\ resp'.status = 200
          /\ Save(r.userId, r.admitted, r.quizId, r.attemptId, r.body) )
        => LET drafts == InProgressOf(attempts, r.userId, r.quizId)
           IN  IF r.attemptId \in drafts
               THEN resp'.attemptId = r.attemptId /\ Len(attempts') = Len(attempts)
               ELSE IF drafts # {}
               THEN /\ resp'.attemptId \in drafts
                    /\ \A j \in drafts :
                         attempts[j].startedAt <= attempts[resp'.attemptId].startedAt
                    /\ Len(attempts') = Len(attempts)
               ELSE /\ Len(attempts') = Len(attempts) + 1
                    /\ resp'.attemptId = Len(attempts')
    ]_vars

\* C17: when an accepted Save or Submit writes its body into an attempt that
\* existed, then for every question of the body the attempt has exactly one
\* Answer, holding the set of the choices the body gives for it (what was
\* selected before is gone); the Answers of the attempt for the other
\* questions and the Answers of every other attempt are as they were, and
\* every new Answer is of that attempt and of a question of the body.
C17_UpsertReplacesPerQuestion ==
  [][ \A r \in AnswerRequests :
        ( /\ resp'.status = 200
          /\ Len(attempts') = Len(attempts)
          /\ \/ Save(r.userId, r.admitted, r.quizId, r.attemptId, r.body)
             \/ Submit(r.userId, r.admitted, r.quizId, r.attemptId, r.body) )
        => LET t == resp'.attemptId
           IN  /\ \A q \in Answered(r.body) :
                    /\ Cardinality(AnswerRows(answers', t, q)) = 1
                    /\ \A i \in AnswerRows(answers', t, q) :
                         answers'[i].choices = Chosen(LastEntry(r.body, q))
               /\ Len(answers') >= Len(answers)
               /\ \A i \in DOMAIN answers :
                    ( \/ answers[i].attemptId # t
                      \/ answers[i].questionId \notin Answered(r.body) )
                    => answers'[i] = answers[i]
               /\ \A i \in DOMAIN answers' \ DOMAIN answers :
                    /\ answers'[i].attemptId = t
                    /\ answers'[i].questionId \in Answered(r.body)
    ]_vars

\* C17 witness: a draft that held "a" for q1 and {"c", "d"} for q2 was written
\* again with "b" for q1 alone: q1 holds "b" only and q2 is as it was.
C17_Witness ==
  /\ resp.status = 200
  /\ resp.attemptId = 1
  /\ Len(attempts) = 1
  /\ Len(answers) = 2
  /\ answers[1] = [attemptId |-> 1, questionId |-> "q1", choices |-> {"b"}]
  /\ answers[2] = [attemptId |-> 1, questionId |-> "q2", choices |-> {"c", "d"}]

\* The limit the routes pass for a key.
LimitOf(key) == (CHOOSE o \in RateOptions : o.key = key).limit

\* The calls before the i-th that are for its key.
EarlierCalls(i) == {j \in 1 .. i - 1 : calls[j].key = calls[i].key}

\* The time at which the window of the i-th call was opened: the time of the
\* call itself if it is the first for its key or comes WindowMs or more after
\* the opening of the window of the call before it for the key.
RECURSIVE WindowOpened(_)
WindowOpened(i) ==
  IF EarlierCalls(i) = {}
  THEN calls[i].now
  ELSE LET p == CHOOSE j \in EarlierCalls(i) : \A k \in EarlierCalls(i) : k <= j
           o == WindowOpened(p)
       IN  IF calls[i].now >= o + WindowMs THEN calls[i].now ELSE o

\* The calls up to the i-th, of its key and window, that were admitted.
AdmittedUpTo(i) ==
  {j \in 1 .. i : /\ calls[j].key = calls[i].key
                  /\ WindowOpened(j) = WindowOpened(i)
                  /\ calls[j].result.ok}

\* C18: with a clock that does not go back, among the calls for one key in
\* one window (from the call that opened it until its resetMs) at most limit
\* are admitted; a call is refused exactly when limit calls of the window
\* were admitted before it, and then reports remaining = 0 and the resetMs of
\* the window; an admitted call reports remaining = limit minus the number
\* of calls admitted so far in the window, which is not negative.
C18_AtMostLimitPerWindow ==
  \A i \in DOMAIN calls :
    LET limit    == LimitOf(calls[i].key)
        admitted == Cardinality(AdmittedUpTo(i))
        r        == calls[i].result
    IN  /\ admitted <= limit
        /\ r.ok => /\ r.remaining = limit - admitted
                   /\ r.remaining >= 0
        /\ ~r.ok => /\ admitted = limit
                    /\ r.remaining = 0
                    /\ r.resetMs = WindowOpened(i) + WindowMs

\* C18 witness: for the submit key, two calls were admitted at time 1, a third
\* was refused at time 3 with the reset time of the window, and a call at the
\* reset time was admitted into a new window.
C18_Witness ==
  /\ Len(calls) = 4
  /\ \A i \in 1 .. 4 : calls[i].key = "quiz:submit:u1:ip"
  /\ calls[1].now = 1 /\ calls[1].result.ok /\ calls[1].result.remaining = 1
  /\ calls[2].now = 1 /\ calls[2].result.ok /\ calls[2].result.remaining = 0
  /\ calls[3].now = 3 /\ ~calls[3].result.ok /\ calls[3].result.resetMs = 4
  /\ calls[4].now = 4 /\ calls[4].result.ok /\ calls[4].result.resetMs = 7

\* A published quiz without questions.
ZeroQuestions(quizId) ==
  /\ quizId \in DOMAIN quizzes
  /\ quizzes[quizId].isPublished
  /\ \A q \in DOMAIN questions : questions[q].quizId # quizId

\* C19: a Submit of a signed-in, admitted caller for a published quiz that
\* has no questions is answered 400, for every body and every hint, and
\* leaves every attempt and every answer as it was.
C19_ZeroQuestionsRejected ==
  [][ \A r \in Requests :
        ( /\ r.userId \in Users
          /\ r.admitted
          /\ ZeroQuestions(r.quizId)
          /\ Submit(r.userId, r.admitted, r.quizId, r.attemptId, r.body) )
        => /\ resp'.status = 400
           /\ attempts' = attempts
           /\ answers' = answers ]_vars

\* C19 witness: a Submit was answered that the quiz has no questions while
\* the store holds a draft for that quiz.
C19_Witness ==
  /\ resp.status = 400
  /\ resp.message = "Quiz has no questions."
  /\ \E i \in DOMAIN attempts :
       ZeroQuestions(attempts[i].quizId) /\ attempts[i].status = "IN_PROGRESS"

\* C20: a DELETE by an admitted admin for a question that at least one
\* Answer references is answered 409 and leaves the questions, the choices
\* and the answers as they were; for a question without answers it is
\* answered 200, and the question and its choices are gone while the other
\* questions and the other choices are as they were.
C20_DeleteRestrictedByAnswers ==
  [][ \A id \in DOMAIN questions :
        DeleteQuestion(Admin.role, Admin.admitted, id)
        => IF \E i \in DOMAIN answers : answers[i].questionId = id
           THEN /\ resp'.status = 409
                /\ questions' = questions
                /\ choices' = choices
                /\ answers' = answers
           ELSE /\ resp'.status = 200
                /\ DOMAIN questions' = DOMAIN questions \ {id}
                /\ \A q \in DOMAIN questions' : questions'[q] = questions[q]
                /\ DOMAIN choices' = {c \in DOMAIN choices : choices[c].questionId # id}
                /\ \A c \in DOMAIN choices' : choices'[c] = choices[c]
    ]_vars

\* C20 witness: question q2, which had no answers, is gone with its choices,
\* and the DELETE of q1, which an Answer references, was answered 409.
C20_Witness ==
  /\ resp.status = 409
  /\ "q2" \notin DOMAIN questions
  /\ \A c \in DOMAIN choices : choices[c].questionId # "q2"
  /\ "q1" \in DOMAIN questions
  /\ \E i \in DOMAIN answers : answers[i].questionId = "q1"

\* C21: the response of GET /quiz?id= (and of the list) is the same for
\* every setting of the isCorrect flags of the choices, the rest of the store
\* being equal; each choice of the response carries id, text and order only.
C21_ResponseHidesCorrectness ==
  [][ \A role \in Roles, admitted \in BOOLEAN, id \in QuizIdInputs :
        GetQuiz(role, admitted, id)
        => /\ \A correct \in SUBSET DOMAIN choices :
                resp' = QuizRead(quizzes, questions, Reflag(choices, correct),
                                 role, admitted, id)
           /\ \A i \in DOMAIN resp'.quiz :
                \A j \in DOMAIN resp'.quiz[i].choices :
                  DOMAIN resp'.quiz[i].choices[j] = {"id", "text", "order"}
    ]_vars

\* C21 witness: quiz z1 was read with its two questions and their choices,
\* from a store whose answer key is not the one of ChoiceRows.
C21_Witness ==
  /\ resp.status = 200
  /\ Len(resp.quiz) = 2
  /\ Len(resp.quiz[1].choices) = 2
  /\ Len(resp.quiz[2].choices) = 3
  /\ choices["b"].isCorrect
  /\ ~choices["c"].isCorrect

\* The choices of a create or update body that are left when the texts are
\* trimmed and the empty ones dropped, and those of them flagged correct.
Kept(inputs) == {i \in DOMAIN inputs : Trim(inputs[i].text) # ""}

KeptCorrect(inputs) == {i \in Kept(inputs) : inputs[i].isCorrect}

\* The authoring rules refuse the choices inputs for a question of type type
\* ("" for a type that is not given).
Refusable(type, inputs) ==
  \/ Cardinality(Kept(inputs)) < 2
  \/ KeptCorrect(inputs) = {}
  \/ /\ type \in {"", "SINGLE_CHOICE"}
     /\ Cardinality(KeptCorrect(inputs)) # 1

\* The create bodies of SpecAdmin that the rules refuse.
RefusablePosts == {body \in PostBodies : Refusable(body.type, body.choices)}

\* C22: a create request of an admitted admin whose choices, trimmed and
\* without the empty ones, are fewer than 2, or have none flagged correct,
\* or, for type SINGLE_CHOICE (given or by default), do not have exactly one
\* flagged correct, is answered 400 and creates no question and no choice.
C22_InvalidCreateRejected ==
  [][ \/ /\ resp'.status = 400
         /\ questions' = questions
         /\ choices' = choices
      \/ \A body \in RefusablePosts :
           ~PostQuestion(Admin.role, Admin.admitted, body) ]_vars

\* C22 witness: after a question was created, a create request without a
\* correct choice among its non-empty choices was answered 400.
C22_Witness ==
  /\ resp.status = 400
  /\ resp.message = "At least 1 correct choice is required."
  /\ "q4" \in DOMAIN questions

\* C23: under every interleaving of the statements of Save and Submit, every
\* attempt has status IN_PROGRESS or SUBMITTED (never GRADED), and a step
\* that changes the status of an attempt changes it from IN_PROGRESS to
\* SUBMITTED.
C23_NeverGraded ==
  [][ \A i \in DOMAIN attempts' :
        /\ attempts'[i].status \in {"IN_PROGRESS", "SUBMITTED"}
        /\ ( i \in DOMAIN attempts /\ attempts'[i].status # attempts[i].status )
           => /\ attempts[i].status = "IN_PROGRESS"
              /\ attempts'[i].status = "SUBMITTED" ]_vars

\* C23 witness: both transactions are over; the draft of u1 was finalized by
\* a Submit and u2 holds a draft.
C23_Witness ==
  /\ \A t \in 1 .. MaxTx : txs[t].pc = "idle"
  /\ Len(attempts) = 2
  /\ attempts[1].userId = "u1"
  /\ attempts[1].status = "SUBMITTED"
  /\ attempts[1].startedAt < attempts[1].submittedAt
  /\ attempts[2].userId = "u2"
  /\ attempts[2].status = "IN_PROGRESS"

\* No question is named by two entries of the body.
NoRepeat(body) ==
  \A i, j \in DOMAIN body : body[i].questionId = body[j].questionId => i = j

\* The Answer stored for the attempt and the question holds a correct choice
\* set: for SINGLE_CHOICE the one correct choice, for MULTIPLE_CHOICE the set
\* of the correct choices.
StoredCorrect(ans, attemptId, questionId) ==
  \E i \in AnswerRows(ans, attemptId, questionId) :
    IF questions[questionId].type = "SINGLE_CHOICE"
    THEN Cardinality(ans[i].choices) = 1 /\ ans[i].choices = Flagged(questionId)
    ELSE ans[i].choices = Flagged(questionId)

\* C24: after an accepted Submit whose body names no question twice, the
\* score stored for the attempt is the number of questions of the quiz whose
\* stored Answer for the attempt is correct, also when the body leaves out
\* questions that an earlier Save answered.
C24_ScoreMatchesStoredAnswers ==
  [][ \A r \in AnswerRequests :
        ( /\ resp'.status = 200
          /\ NoRepeat(r.body)
          /\ Submit(r.userId, r.admitted, r.quizId, r.attemptId, r.body) )
        => attempts'[resp'.attemptId].score =
             Cardinality({q \in QuestionsOf(r.quizId) :
                            StoredCorrect(answers', resp'.attemptId, q)})
    ]_vars

\* The Answers stored for an attempt.
AnswersOfAttempt(ans, attemptId) ==
  {ans[k] : k \in {j \in DOMAIN ans : ans[j].attemptId = attemptId}}

\* C25: the writes of a Save leave every SUBMITTED attempt and its Answers as
\* they were, whether the Save began after the Submit was over or resolved
\* the attempt before the Submit committed and writes after it.
C25_SaveLeavesSubmittedAlone ==
  [][ \A t \in 1 .. MaxTx :
        ( /\ txs[t].op = "save"
          /\ txs[t].pc \in {"write", "create"}
          /\ TxWrite(t) \/ TxCreate(t) )
        => \A i \in DOMAIN attempts :
             attempts[i].status = "SUBMITTED"
             => /\ attempts'[i] = attempts[i]
                /\ AnswersOfAttempt(answers', i) = AnswersOfAttempt(answers, i)
    ]_vars

\* C26: an attempt is IN_PROGRESS if and only if its score and its
\* submittedAt are both unset, and every SUBMITTED attempt has a score and a
\* submittedAt, whether a Submit finalized a draft or created it.
C26_StatusMatchesScoreFields ==
  \A i \in DOMAIN attempts :
    /\ attempts[i].status = "IN_PROGRESS"
         <=> (attempts[i].score = Null /\ attempts[i].submittedAt = Null)
    /\ attempts[i].status = "SUBMITTED"
         => (attempts[i].score # Null /\ attempts[i].submittedAt # Null)

\* C26 witness: one attempt was finalized from a draft (submitted after it
\* was started), one was created by a Submit (started and submitted at
\* once), and both transactions are over.
C26_Witness ==
  /\ \A t \in 1 .. MaxTx : txs[t].pc = "idle"
  /\ Len(attempts) = 2
  /\ attempts[1].status = "SUBMITTED"
  /\ attempts[1].startedAt < attempts[1].submittedAt
  /\ attempts[1].score # Null
  /\ attempts[2].status = "SUBMITTED"
  /\ attempts[2].startedAt = attempts[2].submittedAt
  /\ attempts[2].score # Null

\* The attempts that are not of the user for the quiz.
NotOwned(atts, userId, quizId) ==
  {i \in DOMAIN atts : atts[i].userId # userId \/ atts[i].quizId # quizId}

\* C27: a Save or Submit of a user for a quiz, with any hint (also the id of
\* an attempt of another user or of another quiz), leaves every attempt that
\* is not of the user for the quiz, and its Answers, as they were; when it is
\* accepted, the attempt it answers with is of the user and the quiz.
C27_AttemptsIsolatedPerUser ==
  [][ \A r \in Requests :
        ( \/ Save(r.userId, r.admitted, r.quizId, r.attemptId, r.body)
          \/ Submit(r.userId, r.admitted, r.quizId, r.attemptId, r.body) )
        => /\ \A i \in NotOwned(attempts, r.userId, r.quizId) :
                /\ attempts'[i] = attempts[i]
                /\ AnswersOfAttempt(answers', i) = AnswersOfAttempt(answers, i)
           /\ resp'.status = 200
                => /\ attempts'[resp'.attemptId].userId = r.userId
                   /\ attempts'[resp'.attemptId].quizId = r.quizId
    ]_vars

\* C27 witness: u2 holds the draft 1 with an Answer, and u1 was answered with
\* an attempt of their own, 2, for the same quiz.
C27_Witness ==
  /\ resp.status = 200
  /\ resp.attemptId = 2
  /\ Len(attempts) = 2
  /\ attempts[1].userId = "u2" /\ attempts[1].quizId = "z1"
  /\ attempts[1].status = "IN_PROGRESS"
  /\ attempts[2].userId = "u1" /\ attempts[2].quizId = "z1"
  /\ AnswersOfAttempt(answers, 1) # {}

\* C28: a Save or Submit in whose transaction a write fails (a question named
\* twice while the attempt is being created, an answer for a question or
\* with a choice that does not exist) is answered 500 and leaves no attempt
\* created, no attempt finalized and no Answer written: attempts and answers
\* are as before the request.
C28_TransactionAllOrNothing ==
  [][ \A r \in AnswerRequests :
        ( /\ resp'.status = 500
          /\ \/ Save(r.userId, r.admitted, r.quizId, r.attemptId, r.body)
             \/ Submit(r.userId, r.admitted, r.quizId, r.attemptId, r.body) )
        => /\ attempts' = attempts
           /\ answers' = answers ]_vars

\* C28 witness: a request failed in its transaction while the store holds
\* the draft 1 with "b" for q1, which is still there.
C28_Witness ==
  /\ resp.status = 500
  /\ Len(attempts) = 1
  /\ attempts[1].status = "IN_PROGRESS"
  /\ answers = <<[attemptId |-> 1, questionId |-> "q1", choices |-> {"b"}]>>

\* The update bodies of SpecAdmin that carry choices.
ChoicePuts == {body \in PutBodies : body.withChoices /\ body.id # ""}

\* C29: an update (PUT without move) by an admitted admin of a question that
\* exists, with choices that the rules refuse for the type of the body or,
\* without one, the stored type, is answered 400 and leaves the questions,
\* the choices and the answers as they were: the type and the order of the
\* body are not kept and no choice is deleted.
C29_RejectedUpdateRollsBack ==
  [][ \/ /\ resp'.status = 400
         /\ questions' = questions
         /\ choices' = choices
         /\ answers' = answers
      \/ \A body \in ChoicePuts :
           ~ ( /\ body.id \in DOMAIN questions
               /\ Refusable(IF body.type = "" THEN questions[body.id].type ELSE body.type,
                            body.choices)
               /\ PutQuestion(Admin.role, Admin.admitted, body) ) ]_vars

\* C29 witness: after the type of q1 was set to MULTIPLE_CHOICE and a
\* question was created, an update without a correct choice was answered 400
\* without a trace in the store.
C29_Witness ==
  /\ resp.status = 400
  /\ resp.message = "At least 1 correct choice is required."
  /\ {"q1", "q4"} \subseteq DOMAIN questions
  /\ questions["q1"].type = "MULTIPLE_CHOICE"

\* C30: a call that is refused leaves the map of buckets as it was; a call
\* for a key at or after the resetMs of the key's bucket is admitted, sets
\* the bucket to resetMs = now + windowMs and count 1, and reports remaining
\* = limit - 1 and that resetMs; a call changes no bucket of another key.
C30_RecoversAfterWindow ==
  [][ \A o \in RateOptions, now \in 1 .. MaxNow :
        RateLimit(o, now)
        => LET r == calls'[Len(calls')].result
           IN  /\ ~r.ok => buckets' = buckets
               /\ ( o.key \in DOMAIN buckets /\ now >= buckets[o.key].resetMs )
                  => /\ r.ok
                     /\ r.remaining = o.limit - 1
                     /\ r.resetMs = now + o.windowMs
                     /\ buckets'[o.key] = [resetMs |-> now + o.windowMs, count |-> 1]
               /\ DOMAIN buckets' = DOMAIN buckets \cup {o.key}
               /\ \A k \in DOMAIN buckets \ {o.key} : buckets'[k] = buckets[k]
    ]_vars

\* C30 witness: the submit key used up its window, its next call was
\* refused, and its call at the resetMs of the window was admitted into a new
\* window, while the bucket of the save key is as its one call left it.
C30_Witness ==
  /\ Len(calls) = 5
  /\ calls[1].key = "quiz:save:u1:ip"
  /\ \A i \in 2 .. 5 : calls[i].key = "quiz:submit:u1:ip"
  /\ ~calls[4].result.ok
  /\ calls[5].now = calls[4].result.resetMs
  /\ calls[5].result.ok
  /\ calls[5].result.remaining = SubmitLimit - 1
  /\ buckets["quiz:submit:u1:ip"] = [resetMs |-> calls[5].now + WindowMs, count |-> 1]
  /\ buckets["quiz:save:u1:ip"] = [resetMs |-> calls[1].now + WindowMs, count |-> 1]

====
